---- MODULE Spec2Model ----
(***************************************************************************)
(* HydroVacFinder: the location search (POST /api/search), the radius      *)
(* matchers of the storage layer and the distance function they use; the   *)
(* admin guards and session routes, the checkout session route, the        *)
(* Stripe webhook, the production migration and the Google Places import.  *)
(*                                                                         *)
(* Numbers.  JavaScript numbers are IEEE doubles; here an angle or a       *)
(* trigonometric value v is the integer v * SCALE, truncated toward zero   *)
(* (so negation stays exact, as it is for doubles).  Coordinates are       *)
(* integers in hundredths of a degree: 3977 is 39.77 degrees.  NaN is the  *)
(* value NaN.                                                              *)
(***************************************************************************)
EXTENDS Integers, Sequences, FiniteSets, TLC

\* JavaScript values that reach the matchers, as records [t, v]:
\*   Num(n)   the number n / 100 (a coordinate) or n / SCALE (a distance)
\*   NaN      the number NaN
\*   Null     null or undefined
\*   Empty    the string ""
\*   Text(n)  the decimal string of n / 100, e.g. "39.77"
\*   Junk     a non-empty string that is not a number, e.g. "abc"
Num(n) == [t |-> "num", v |-> n]
NaN == [t |-> "nan", v |-> 0]
Null == [t |-> "null", v |-> 0]
Empty == [t |-> "empty", v |-> 0]
Text(n) == [t |-> "text", v |-> n]
Junk == [t |-> "junk", v |-> 0]

\* ToBoolean, as in `company.lat && company.lng` and `loc.lat && loc.lng`
Truthy(x) ==
    CASE x.t = "num" -> x.v # 0
      [] x.t \in {"text", "junk"} -> TRUE
      [] OTHER -> FALSE

\* parseFloat on a string
parseFloat(x) == IF x.t = "text" THEN Num(x.v) ELSE NaN

\* ToNumber, the coercion of the operands of - and *
ToNumber(x) ==
    CASE x.t = "num" -> x
      [] x.t = "text" -> Num(x.v)
      [] x.t \in {"null", "empty"} -> Num(0)
      [] OTHER -> NaN

SCALE == 10000
PI_FP == 31416
R == 3959


\* integer division truncating toward zero, as a double operation is
\* symmetric under negation
TDiv(a, b) == IF a < 0 THEN -((-a) \div b) ELSE a \div b

Mul(a, b) == TDiv(a * b, SCALE)

RECURSIVE SqrtSearch(_, _, _)
SqrtSearch(n, lo, hi) ==
    IF lo >= hi THEN lo
    ELSE LET mid == (lo + hi + 1) \div 2
         IN  IF mid * mid <= n THEN SqrtSearch(n, mid, hi)
             ELSE SqrtSearch(n, lo, mid - 1)

\* Math.sqrt on n = v * SCALE * SCALE, result scaled by SCALE
MathSqrt(n) == SqrtSearch(n, 0, 2 * SCALE)

\* Math.sin, Taylor polynomial to x^11 in Horner form, |x| <= pi
MathSin(x) ==
    LET x2 == Mul(x, x)
        p5 == SCALE - TDiv(x2, 110)
        p4 == SCALE - TDiv(Mul(x2, p5), 72)
        p3 == SCALE - TDiv(Mul(x2, p4), 42)
        p2 == SCALE - TDiv(Mul(x2, p3), 20)
        p1 == SCALE - TDiv(Mul(x2, p2), 6)
    IN  Mul(x, p1)

\* Math.cos, Taylor polynomial to x^12 in Horner form, |x| <= pi
MathCos(x) ==
    LET x2 == Mul(x, x)
        p6 == SCALE - TDiv(x2, 132)
        p5 == SCALE - TDiv(Mul(x2, p6), 90)
        p4 == SCALE - TDiv(Mul(x2, p5), 56)
        p3 == SCALE - TDiv(Mul(x2, p4), 30)
        p2 == SCALE - TDiv(Mul(x2, p3), 12)
    IN  SCALE - TDiv(Mul(x2, p2), 2)

\* arctangent of t in [0, 1]: one half-angle reduction, then the series
AtanUnit(t) ==
    LET h  == MathSqrt((SCALE + Mul(t, t)) * SCALE)
        u  == TDiv(t * SCALE, SCALE + h)
        u2 == Mul(u, u)
        q4 == TDiv(SCALE, 7) - TDiv(u2, 9)
        q3 == TDiv(SCALE, 5) - Mul(u2, q4)
        q2 == TDiv(SCALE, 3) - Mul(u2, q3)
        q1 == SCALE - Mul(u2, q2)
    IN  2 * Mul(u, q1)

\* Math.atan2(y, x) for y >= 0 and x >= 0 (both are square roots here)
MathAtan2(y, x) ==
    IF y = 0 THEN 0
    ELSE IF y <= x THEN AtanUnit(TDiv(y * SCALE, x))
    ELSE TDiv(PI_FP, 2) - AtanUnit(TDiv(x * SCALE, y))

\* degrees (in hundredths) to radians
toRadians(degrees) == TDiv(degrees * PI_FP, 18000)

\* Haversine with the cosine of the first latitude taken twice
Haversine_OneLatitude(lat1, lng1, lat2, lng2) ==
    LET dLat == toRadians(lat2 - lat1)
        dLng == toRadians(lng2 - lng1)
        sLat == MathSin(TDiv(dLat, 2))
        sLng == MathSin(TDiv(dLng, 2))
        cc   == Mul(MathCos(toRadians(lat1)), MathCos(toRadians(lat1)))
        a    == sLat * sLat + Mul(cc, sLng) * sLng
        one  == SCALE * SCALE
        b    == IF a > one THEN 0 ELSE one - a
        c    == 2 * MathAtan2(MathSqrt(a), MathSqrt(b))
    IN  R * c

\* haversine distance in miles on plain numbers, scaled by SCALE
Haversine(lat1, lng1, lat2, lng2) ==
    LET dLat == toRadians(lat2 - lat1)
        dLng == toRadians(lng2 - lng1)
        sLat == MathSin(TDiv(dLat, 2))
        sLng == MathSin(TDiv(dLng, 2))
        cc   == Mul(MathCos(toRadians(lat1)), MathCos(toRadians(lat2)))
        a    == sLat * sLat + Mul(cc, sLng) * sLng
        one  == SCALE * SCALE
        b    == IF a > one THEN 0 ELSE one - a
        c    == 2 * MathAtan2(MathSqrt(a), MathSqrt(b))
    IN  R * c

\* calculateDistance on JavaScript values: NaN in gives NaN out
calculateDistance(lat1, lng1, lat2, lng2) ==
    LET n == <<ToNumber(lat1), ToNumber(lng1), ToNumber(lat2), ToNumber(lng2)>>
    IN  IF \E i \in 1..4 : n[i].t = "nan" THEN NaN
        ELSE Num(Haversine(n[1].v, n[2].v, n[3].v, n[4].v))

\* WithinRadius with the comparison turned around
WithinRadius_Reversed(distance, radiusMiles) ==
    distance.t = "num" /\ distance.v >= radiusMiles * SCALE

\* distance <= radiusMiles; every comparison with NaN is false
WithinRadius(distance, radiusMiles) ==
    distance.t = "num" /\ distance.v <= radiusMiles * SCALE

(***************************************************************************)
(* Strings that are searched in (the address text, a location's city or    *)
(* address) are sequences of characters; "" and a missing value are both   *)
(* falsy and are both the empty sequence.                                  *)
(***************************************************************************)
toLowerCase(str) ==
    [i \in DOMAIN str |->
        CASE str[i] = "I" -> "i"
          [] str[i] = "N" -> "n"
          [] str[i] = "C" -> "c"
          [] str[i] = "O" -> "o"
          [] OTHER -> str[i]]

\* String.prototype.includes
includes(str, search) ==
    \E k \in 0..(Len(str) - Len(search)) :
        SubSeq(str, k + 1, k + Len(search)) = search

(***************************************************************************)
(* The additionalLocations column.  A blob is                              *)
(*   NoBlob         null                                                   *)
(*   BadJsonBlob    a string that is not JSON                              *)
(*   ObjectBlob     a JSON value that is not an array                      *)
(*   ArrayBlob(l)   the array l                                            *)
(*   StringBlob(l)  a string holding the JSON text of the array l          *)
(* and an array entry is NullEntry (a JSON null) or a location record.     *)
(***************************************************************************)
NoBlob == [k |-> "null", locs |-> << >>]
BadJsonBlob == [k |-> "badjson", locs |-> << >>]
ObjectBlob == [k |-> "object", locs |-> << >>]
ArrayBlob(l) == [k |-> "array", locs |-> l]
StringBlob(l) == [k |-> "string", locs |-> l]

NullEntry == [isNull |-> TRUE, lat |-> Null, lng |-> Null, city |-> << >>, address |-> << >>]
LocEntry(lat, lng, city, address) ==
    [isNull |-> FALSE, lat |-> lat, lng |-> lng, city |-> city, address |-> address]

\* typeof x === 'string' ? JSON.parse(x) : x ; a SyntaxError is "throw"
ParseLocations(blob) ==
    CASE blob.k = "badjson" -> [k |-> "throw", locs |-> << >>]
      [] blob.k = "string" -> [k |-> "array", locs |-> blob.locs]
      [] OTHER -> blob

\* locations.some(loc => loc.lat && loc.lng && distance <= radiusMiles), in
\* array order; reading loc.lat of a null entry throws a TypeError
RECURSIVE SomeLocationWithinRadius(_, _, _, _, _)
SomeLocationWithinRadius(locs, i, lat, lng, radiusMiles) ==
    IF i > Len(locs) THEN "false"
    ELSE IF locs[i].isNull THEN "throw"
    ELSE IF /\ Truthy(locs[i].lat) /\ Truthy(locs[i].lng)
            /\ WithinRadius(calculateDistance(lat, lng, locs[i].lat, locs[i].lng),
                            radiusMiles)
         THEN "true"
    ELSE SomeLocationWithinRadius(locs, i + 1, lat, lng, radiusMiles)

\* the catch block left out: the exception leaves the filter callback
Catch_Rethrows(outcome) == outcome

\* try { ... } catch (e) { }: an exception ends the block and nothing matched
Catch(outcome) == IF outcome = "throw" THEN "false" ELSE outcome

\* the body of the try block of the company filter: "true", "false", "throw"
CompanyLocationsTry(company, lat, lng, radiusMiles) ==
    LET locations == ParseLocations(company.additionalLocations)
    IN  IF locations.k = "throw" THEN "throw"
        ELSE IF locations.k = "array" /\ Len(locations.locs) > 0
        THEN SomeLocationWithinRadius(locations.locs, 1, lat, lng, radiusMiles)
        ELSE "false"

\* the filter callback of getCompaniesByRadius: "true", "false", or "throw"
\* when an exception leaves it
CompanyFilter(company, lat, lng, radiusMiles) ==
    IF /\ Truthy(company.lat) /\ Truthy(company.lng)
       /\ WithinRadius(calculateDistance(lat, lng, parseFloat(company.lat),
                                         parseFloat(company.lng)), radiusMiles)
    THEN "true"
    ELSE IF company.additionalLocations.k # "null"
    THEN Catch(CompanyLocationsTry(company, lat, lng, radiusMiles))
    ELSE "false"

CompanyMatches(company, lat, lng, radiusMiles) ==
    CompanyFilter(company, lat, lng, radiusMiles) = "true"

\* allCompanies.filter(...) from element i on: threw when an exception left
\* the callback (the promise is rejected), rows the elements it kept
RECURSIVE FilterCompanies(_, _, _, _, _)
FilterCompanies(allCompanies, i, lat, lng, radiusMiles) ==
    IF i > Len(allCompanies) THEN [threw |-> FALSE, rows |-> << >>]
    ELSE LET outcome == CompanyFilter(allCompanies[i], lat, lng, radiusMiles)
             rest == FilterCompanies(allCompanies, i + 1, lat, lng, radiusMiles)
         IN  [threw |-> (outcome = "throw" \/ rest.threw),
              rows |-> IF outcome = "true" THEN <<allCompanies[i]>> \o rest.rows
                       ELSE rest.rows]

getCompaniesByRadius(allCompanies, lat, lng, radiusMiles) ==
    FilterCompanies(allCompanies, 1, lat, lng, radiusMiles).rows

\* locations.some(loc => cityMatch || addressMatch), in array order
RECURSIVE SomeLocationMatchesText(_, _, _)
SomeLocationMatchesText(locs, i, searchLower) ==
    IF i > Len(locs) THEN "false"
    ELSE IF locs[i].isNull THEN "throw"
    ELSE IF \/ locs[i].city # << >> /\ includes(searchLower, toLowerCase(locs[i].city))
            \/ locs[i].address # << >> /\ includes(searchLower, toLowerCase(locs[i].address))
         THEN "true"
    ELSE SomeLocationMatchesText(locs, i + 1, searchLower)

\* the body of the try block of the disposal-site filter
DisposalSiteLocationsTry(site, searchAddress) ==
    LET locations == ParseLocations(site.additionalLocations)
    IN  IF locations.k = "throw" THEN "throw"
        ELSE IF locations.k = "array"
        THEN SomeLocationMatchesText(locations.locs, 1, toLowerCase(searchAddress))
        ELSE "false"

\* the filter callback of getDisposalSitesByRadius: "true", "false", or
\* "throw" when an exception leaves it
DisposalSiteFilter(site, lat, lng, radiusMiles, searchAddress) ==
    IF /\ Truthy(site.lat) /\ Truthy(site.lng)
       /\ WithinRadius(calculateDistance(lat, lng, parseFloat(site.lat),
                                         parseFloat(site.lng)), radiusMiles)
    THEN "true"
    ELSE IF searchAddress # << >> /\ site.additionalLocations.k # "null"
    THEN Catch(DisposalSiteLocationsTry(site, searchAddress))
    ELSE "false"

DisposalSiteMatches(site, lat, lng, radiusMiles, searchAddress) ==
    DisposalSiteFilter(site, lat, lng, radiusMiles, searchAddress) = "true"

\* allSites.filter(...) from element i on
RECURSIVE FilterDisposalSites(_, _, _, _, _, _)
FilterDisposalSites(allSites, i, lat, lng, radiusMiles, searchAddress) ==
    IF i > Len(allSites) THEN [threw |-> FALSE, rows |-> << >>]
    ELSE LET outcome == DisposalSiteFilter(allSites[i], lat, lng, radiusMiles,
                                           searchAddress)
             rest == FilterDisposalSites(allSites, i + 1, lat, lng, radiusMiles,
                                         searchAddress)
         IN  [threw |-> (outcome = "throw" \/ rest.threw),
              rows |-> IF outcome = "true" THEN <<allSites[i]>> \o rest.rows
                       ELSE rest.rows]

getDisposalSitesByRadius(allSites, lat, lng, radiusMiles, searchAddress) ==
    FilterDisposalSites(allSites, 1, lat, lng, radiusMiles, searchAddress).rows

(***************************************************************************)
(* The store and one POST /api/search request.                             *)
(***************************************************************************)
VARIABLES
    companies,                \* table companies, in listing order
    disposalSites,            \* table disposal_sites, in listing order
    stateLandingPages,        \* table state_landing_pages
    disposalSiteLandingPages, \* table disposal_site_landing_pages
    subscriptions,            \* table subscriptions: the links to providers
    companyAnalytics,         \* table company_analytics: one companyId per row
    pc,                       \* where the search handler is
    request,                  \* req.body and the environment of the request
    geocode,                  \* << >> or <<what was taken from results[0]>>
    premiumLandingPage,       \* << >> (null/undefined) or <<page>>
    premiumCompany,           \* << >> or <<company>>
    disposalSiteLandingPage,  \* << >> or <<page>>
    premiumDisposalSite,      \* << >> or <<site>>
    companiesInRadius,        \* result of getCompaniesByRadius
    response,                 \* what res.json / res.status sent
    called,                   \* the calls this request has made to the geocoder
                              \* and to the storage
    geocodeData,              \* << >> or <<the body the geocoder answered>>
    snapshots,                \* history: the states of the store that a write
                              \* replaced while this request was served
    writes,                   \* history: how many admin writes were made
    mIn,                      \* matcher harness: provider, center, address
    mOut,                     \* matcher harness: radius and result
    env,                      \* process.env: the keys of the deployment
    sessions,                 \* session store: (req.session).isAdmin per session
    lastChange,               \* history: the last login that succeeded or
                              \* logout, per session
    reply,                    \* the last request served outside the search
                              \* and what was answered
    partners,                 \* table partners
    checkoutSessions,         \* the Stripe checkout sessions created
    deliveries                \* the webhook deliveries being handled

storeVars == <<companies, disposalSites, stateLandingPages, disposalSiteLandingPages,
               subscriptions, companyAnalytics>>
searchVars == <<pc, request, geocode, premiumLandingPage, premiumCompany,
                disposalSiteLandingPage, premiumDisposalSite, companiesInRadius,
                response, called, geocodeData>>
matchVars == <<mIn, mOut>>
historyVars == <<snapshots, writes>>
apiVars == <<env, sessions, lastChange, reply, partners, checkoutSessions, deliveries>>
vars == <<storeVars, searchVars, matchVars, historyVars, apiVars>>

MaxCompanies == 3
MaxSites == 2
MaxLocs == 2
MaxWrites == 1

DefaultRadiusMiles == 50

\* coordinates used by the seeded records, in hundredths of a degree
Indianapolis == [lat |-> 3977, lng |-> -8616]
NearIndianapolis == [lat |-> 3980, lng |-> -8620]
FortWayne == [lat |-> 4108, lng |-> -8514]
Chicago == [lat |-> 4188, lng |-> -8763]
LosAngeles == [lat |-> 3405, lng |-> -11824]
Quito == [lat |-> 0, lng |-> -7850]

IndianaText == <<"I", "n">>
ColoradoText == <<"C", "o">>

\* a company row; the location data cycles over three shapes with the id
SeedCompany(i, tier) ==
    LET shape == (i - 1) % 3
    IN  CASE shape = 0 ->
               [id |-> i, tier |-> tier,
                lat |-> Text(Indianapolis.lat), lng |-> Text(Indianapolis.lng),
                additionalLocations |-> NoBlob]
          [] shape = 1 ->
               [id |-> i, tier |-> tier,
                lat |-> Text(LosAngeles.lat), lng |-> Text(LosAngeles.lng),
                additionalLocations |->
                    ArrayBlob(<<LocEntry(Num(NearIndianapolis.lat),
                                         Num(NearIndianapolis.lng), << >>, << >>),
                                NullEntry>>)]
          [] OTHER ->
               [id |-> i, tier |-> tier,
                lat |-> Text(FortWayne.lat), lng |-> Text(FortWayne.lng),
                additionalLocations |-> BadJsonBlob]

\* the tiers a seeded row may have; the rows after the third are basic
TierChoices(i) ==
    LET shape == (i - 1) % 3
    IN  CASE i > 3 -> {"basic"}
          [] shape = 0 -> {"basic", "premium"}
          [] shape = 1 -> {"premium", "featured", "verified"}
          [] OTHER -> {"verified", "free", "basic"}

\* a disposal-site row
SeedSite(i) ==
    IF (i - 1) % 2 = 0
    THEN [id |-> i,
          lat |-> Text(NearIndianapolis.lat), lng |-> Text(NearIndianapolis.lng),
          additionalLocations |-> NoBlob]
    ELSE [id |-> i,
          lat |-> Text(Chicago.lat), lng |-> Text(Chicago.lng),
          additionalLocations |->
              StringBlob(<<LocEntry(Null, Null, ColoradoText, << >>), NullEntry>>)]

\* a landing page row; companyId 0 is a null binding
CompanyPage(id, stateCode, companyId, active) ==
    [id |-> id, stateCode |-> stateCode, companyId |-> companyId, active |-> active]
DisposalPage(id, stateCode, disposalSiteId, active) ==
    [id |-> id, stateCode |-> stateCode, disposalSiteId |-> disposalSiteId,
     active |-> active]
\* an error answer: only the status matters; the other fields of the record
\* are those of the 200 response, empty
ErrorResponse(status) ==
    [status |-> status, state |-> "", stateName |-> "", searchType |-> "",
     hasRadiusResults |-> FALSE,
     premiumLandingPage |-> << >>, company |-> << >>,
     disposalSiteLandingPage |-> << >>, disposalSite |-> << >>,
     companies |-> << >>, disposalSites |-> << >>, radius |-> 0]

\* nothing has been sent yet
NoResponse == ErrorResponse(0)

SearchIdle ==
    /\ pc = "idle"
    /\ request = [address |-> << >>, radiusMiles |-> 0, apiKey |-> FALSE]
    /\ geocode = << >>
    /\ premiumLandingPage = << >>
    /\ premiumCompany = << >>
    /\ disposalSiteLandingPage = << >>
    /\ premiumDisposalSite = << >>
    /\ companiesInRadius = << >>
    /\ response = NoResponse
    /\ called = {}
    /\ geocodeData = << >>

NoWrites ==
    /\ snapshots = {}
    /\ writes = 0

MatchIdle ==
    /\ mIn = [provider |-> << >>, lat |-> 0, lng |-> 0, address |-> << >>]
    /\ mOut = [op |-> "none", radiusMiles |-> 0, result |-> << >>]

MaxSessions == 2

\* a string that may be absent: << >> is undefined, <<s>> is the string s
Undefined == << >>
Str(s) == <<s>>

\* ToBoolean of such a value: undefined and "" are falsy
IsSet(x) == x # Undefined /\ x[1] # ""

\* no request has been served
NoReply ==
    [op |-> "none", session |-> 0, apiKey |-> Undefined, password |-> Undefined,
     status |-> 0, next |-> FALSE, body |-> << >>]

NoChange == [kind |-> "none", password |-> Undefined]

\* the sessions, the requests and the payment side at rest
ApiIdle ==
    /\ sessions = [s \in 1..MaxSessions |-> FALSE]
    /\ lastChange = [s \in 1..MaxSessions |-> NoChange]
    /\ reply = NoReply
    /\ partners = << >>
    /\ checkoutSessions = {}
    /\ deliveries = << >>

\* a store without rows
EmptyStore ==
    /\ companies = << >>
    /\ disposalSites = << >>
    /\ stateLandingPages = << >>
    /\ disposalSiteLandingPages = << >>
    /\ subscriptions = << >>
    /\ companyAnalytics = << >>

\* a deployment with both keys set
KeysSet ==
    env = [ADMIN_API_KEY |-> Str("k"), ADMIN_MIGRATION_KEY |-> Str("m"),
           STRIPE_SECRET_KEY |-> Str("sk"),
                 GOOGLE_API_KEY |-> Str("g")]

Init ==
    /\ \E tiers \in [1..MaxCompanies -> {"basic", "premium", "featured", "verified", "free"}] :
          /\ \A i \in 1..MaxCompanies : tiers[i] \in TierChoices(i)
          /\ companies = [i \in 1..MaxCompanies |-> SeedCompany(i, tiers[i])]
    /\ disposalSites = [i \in 1..MaxSites |-> SeedSite(i)]
    /\ \E pages \in {<< >>} \cup
                    {<<CompanyPage(2, "IN", c, a)>> :
                        c \in 0..(MaxCompanies + 1), a \in {"yes", "no"}} :
          stateLandingPages = <<CompanyPage(1, "CO", 1, "yes")>> \o pages
    /\ \E pages \in {<< >>} \cup
                    {<<DisposalPage(2, "IN", d, a)>> :
                        d \in 0..(MaxSites + 1), a \in {"yes", "no"}} :
          disposalSiteLandingPages = <<DisposalPage(1, "CO", 1, "yes")>> \o pages
    /\ subscriptions = << >>
    /\ companyAnalytics = << >>
    /\ SearchIdle
    /\ MatchIdle
    /\ NoWrites
    /\ KeysSet
    /\ ApiIdle

(***************************************************************************)
(* Storage reads used by the search.  A missing row is << >>.              *)
(***************************************************************************)
toUpperCase(stateCode) ==
    CASE stateCode = "in" -> "IN"
      [] stateCode = "co" -> "CO"
      [] OTHER -> stateCode

First(rows) == IF Len(rows) = 0 THEN << >> ELSE <<rows[1]>>

getAllCompanies == companies

getAllDisposalSites == disposalSites

\* getCompany without its where clause
getCompany_NoWhere(id) == First(companies)

\* getCompany looking the id up among the radius matches only
getCompany_AmongMatches(id) ==
    First(SelectSeq(getCompaniesByRadius(companies, Num(geocode[1].lat),
                                         Num(geocode[1].lng), request.radiusMiles),
                    LAMBDA c : c.id = id))

getCompany(id) == First(SelectSeq(companies, LAMBDA c : c.id = id))

getDisposalSite(id) == First(SelectSeq(disposalSites, LAMBDA d : d.id = id))

getStateLandingPageByStateCode(stateCode) ==
    First(SelectSeq(stateLandingPages,
                    LAMBDA page : page.stateCode = toUpperCase(stateCode)))

getDisposalSiteLandingPageByStateCode(stateCode) ==
    First(SelectSeq(disposalSiteLandingPages,
                    LAMBDA page : page.stateCode = toUpperCase(stateCode)))

(***************************************************************************)
(* The geocoding provider.  It is external: any of these outcomes may come *)
(* back for any address.                                                   *)
(***************************************************************************)
Component(types, short_name, long_name) ==
    [types |-> types, short_name |-> short_name, long_name |-> long_name]

IndianapolisCandidate ==
    [lat |-> Indianapolis.lat, lng |-> Indianapolis.lng,
     types |-> {"locality", "political"},
     address_components |->
        <<Component({"locality", "political"}, "Indianapolis", "Indianapolis"),
          Component({"administrative_area_level_1", "political"}, "IN", "Indiana"),
          Component({"country", "political"}, "US", "United States")>>]

\* a state-level result; the loop over its components stops at the first
\* administrative_area_level_1 component, a second one is never read
IndianaCandidate ==
    [lat |-> Indianapolis.lat, lng |-> Indianapolis.lng,
     types |-> {"administrative_area_level_1", "political"},
     address_components |->
        <<Component({"administrative_area_level_1", "political"}, "IN", "Indiana"),
          Component({"country", "political"}, "US", "United States"),
          Component({"administrative_area_level_1"}, "CO", "Colorado")>>]

QuitoCandidate ==
    [lat |-> Quito.lat, lng |-> Quito.lng,
     types |-> {"locality", "political"},
     address_components |->
        <<Component({"locality", "political"}, "Quito", "Quito"),
          Component({"country", "political"}, "EC", "Ecuador")>>]

GeocodeCandidates == {IndianapolisCandidate, IndianaCandidate, QuitoCandidate}

GeocodeReplies ==
    {[status |-> "ZERO_RESULTS", results |-> << >>],
     [status |-> "REQUEST_DENIED", results |-> << >>]} \cup
    {[status |-> "OK", results |-> <<c>>] : c \in GeocodeCandidates}

\* the loop over result.address_components, with its break
RECURSIVE StateComponent(_, _)
StateComponent(components, i) ==
    IF i > Len(components) THEN << >>
    ELSE IF "administrative_area_level_1" \in components[i].types
         THEN <<components[i]>>
    ELSE StateComponent(components, i + 1)

\* ExtractState with searchType taken from the presence of a state component
ExtractState_TypeFromComponent(result) ==
    LET component == StateComponent(result.address_components, 1)
    IN  [lat |-> result.lat, lng |-> result.lng,
         stateCode |-> IF component = << >> THEN "" ELSE component[1].short_name,
         stateName |-> IF component = << >> THEN "" ELSE component[1].long_name,
         searchType |-> IF component # << >> THEN "state" ELSE "local"]

\* ExtractState with the loop over the components run to its end
ExtractState_LastComponent(result) ==
    LET found == {i \in DOMAIN result.address_components :
                     "administrative_area_level_1" \in result.address_components[i].types}
        component == IF found = {} THEN << >>
                     ELSE <<result.address_components[
                                CHOOSE i \in found : \A j \in found : j <= i]>>
    IN  [lat |-> result.lat, lng |-> result.lng,
         stateCode |-> IF component = << >> THEN "" ELSE component[1].short_name,
         stateName |-> IF component = << >> THEN "" ELSE component[1].long_name,
         searchType |-> IF "administrative_area_level_1" \in result.types
                        THEN "state" ELSE "local"]

\* step 2: location, stateCode, stateName and searchType of results[0];
\* a null stateCode or stateName is ""
ExtractState(result) ==
    LET component == StateComponent(result.address_components, 1)
    IN  [lat |-> result.lat, lng |-> result.lng,
         stateCode |-> IF component = << >> THEN "" ELSE component[1].short_name,
         stateName |-> IF component = << >> THEN "" ELSE component[1].long_name,
         searchType |-> IF "administrative_area_level_1" \in result.types
                        THEN "state" ELSE "local"]

(***************************************************************************)
(* Steps 6 and 6a: the companies of the response.                          *)
(***************************************************************************)
tierOrder(tier) ==
    CASE tier = "premium" -> 3
      [] tier = "featured" -> 2
      [] tier = "verified" -> 1
      [] OTHER -> 0

\* the comparator given to otherCompanies.sort
CompareCompanies(a, b, pinnedId) ==
    IF a.id = pinnedId THEN -1
    ELSE IF b.id = pinnedId THEN 1
    ELSE tierOrder(b.tier) - tierOrder(a.tier)

\* SortInsert that puts x in front of the elements it compares equal to
RECURSIVE SortInsert_Unstable(_, _, _)
SortInsert_Unstable(sorted, x, pinnedId) ==
    IF sorted = << >> THEN <<x>>
    ELSE IF CompareCompanies(Head(sorted), x, pinnedId) >= 0
         THEN <<x>> \o sorted
    ELSE <<Head(sorted)>> \o SortInsert_Unstable(Tail(sorted), x, pinnedId)

\* x goes in front of the first element that must come after it
RECURSIVE SortInsert(_, _, _)
SortInsert(sorted, x, pinnedId) ==
    IF sorted = << >> THEN <<x>>
    ELSE IF CompareCompanies(Head(sorted), x, pinnedId) > 0
         THEN <<x>> \o sorted
    ELSE <<Head(sorted)>> \o SortInsert(Tail(sorted), x, pinnedId)

\* Array.prototype.sort, which is stable
RECURSIVE ArraySort(_, _)
ArraySort(arr, pinnedId) ==
    IF arr = << >> THEN << >>
    ELSE SortInsert(ArraySort(SubSeq(arr, 1, Len(arr) - 1), pinnedId),
                    arr[Len(arr)], pinnedId)

\* PageIsBound without the test of the active flag
PageIsBound_IgnoresActive(active, boundId) == boundId # 0

\* the guard of step 3: the page is active and bound
PageIsBound(active, boundId) == active = "yes" /\ boundId # 0

\* the guard of step 6a
SortIsApplied(page) == page # << >> /\ page[1].companyId # 0

OtherCompanies(inRadius, company, page) ==
    LET separated == IF company # << >>
                     THEN SelectSeq(inRadius, LAMBDA c : c.id # company[1].id)
                     ELSE inRadius
    IN  IF SortIsApplied(page)
        THEN ArraySort(separated, page[1].companyId)
        ELSE separated

\* SearchResponse with the premium disposal site moved to the front
SearchResponse_SitePinned(geo, page, company, sitePage, site, otherCompanies, sitesInRadius, radiusMiles) ==
    [status |-> 200, state |-> geo.stateCode, stateName |-> geo.stateName,
     searchType |-> geo.searchType,
     hasRadiusResults |-> (Len(otherCompanies) > 0 \/ Len(sitesInRadius) > 0),
     premiumLandingPage |-> page,
     company |-> IF page # << >> THEN company ELSE << >>,
     disposalSiteLandingPage |-> sitePage,
     disposalSite |-> IF sitePage # << >> THEN site ELSE << >>,
     companies |-> otherCompanies,
     disposalSites |-> IF site = << >> THEN sitesInRadius
                       ELSE site \o SelectSeq(sitesInRadius, LAMBDA d : d.id # site[1].id),
     radius |-> radiusMiles]

\* SearchResponse with the premium company given only to a state that has no
\* disposal-site landing page
SearchResponse_OneCategory(geo, page, company, sitePage, site, otherCompanies, sitesInRadius, radiusMiles) ==
    [status |-> 200, state |-> geo.stateCode, stateName |-> geo.stateName,
     searchType |-> geo.searchType,
     hasRadiusResults |-> (Len(otherCompanies) > 0 \/ Len(sitesInRadius) > 0),
     premiumLandingPage |-> page,
     company |-> IF page # << >> /\ sitePage = << >> THEN company ELSE << >>,
     disposalSiteLandingPage |-> sitePage,
     disposalSite |-> IF sitePage # << >> THEN site ELSE << >>,
     companies |-> otherCompanies, disposalSites |-> sitesInRadius,
     radius |-> radiusMiles]

\* SearchResponse with a resolved premium company counted as a radius result
SearchResponse_CountsPremium(geo, page, company, sitePage, site, otherCompanies, sitesInRadius, radiusMiles) ==
    [status |-> 200, state |-> geo.stateCode, stateName |-> geo.stateName,
     searchType |-> geo.searchType,
     hasRadiusResults |->
        (company # << >> \/ Len(otherCompanies) > 0 \/ Len(sitesInRadius) > 0),
     premiumLandingPage |-> page,
     company |-> IF page # << >> THEN company ELSE << >>,
     disposalSiteLandingPage |-> sitePage,
     disposalSite |-> IF sitePage # << >> THEN site ELSE << >>,
     companies |-> otherCompanies, disposalSites |-> sitesInRadius,
     radius |-> radiusMiles]

\* the body of the 200 response; company and disposalSite are the nested
\* premiumLandingPage.company and disposalSiteLandingPage.disposalSite
SearchResponse(geo, page, company, sitePage, site, otherCompanies, sitesInRadius, radiusMiles) ==
    [status |-> 200, state |-> geo.stateCode, stateName |-> geo.stateName,
     searchType |-> geo.searchType,
     hasRadiusResults |-> (Len(otherCompanies) > 0 \/ Len(sitesInRadius) > 0),
     premiumLandingPage |-> page,
     company |-> IF page # << >> THEN company ELSE << >>,
     disposalSiteLandingPage |-> sitePage,
     disposalSite |-> IF sitePage # << >> THEN site ELSE << >>,
     companies |-> otherCompanies, disposalSites |-> sitesInRadius,
     radius |-> radiusMiles]

(***************************************************************************)
(* POST /api/search, one action per stretch of code between two awaits.    *)
(***************************************************************************)
Addresses == {<< >>, IndianaText}
Radii == {0, 150, 3000}
RadiusInputs == {<< >>} \cup {<<r>> : r \in Radii}

ClearLocals ==
    /\ geocode' = << >>
    /\ geocodeData' = << >>
    /\ premiumLandingPage' = << >>
    /\ premiumCompany' = << >>
    /\ disposalSiteLandingPage' = << >>
    /\ premiumDisposalSite' = << >>
    /\ companiesInRadius' = << >>

\* the call the handler makes when it reaches a label and awaits
CallOf(label) ==
    CASE label = "geocode" -> {"fetch"}
      [] label = "landingPage" -> {"getStateLandingPageByStateCode"}
      [] label = "premiumCompany" -> {"getCompany"}
      [] label = "disposalLandingPage" -> {"getDisposalSiteLandingPageByStateCode"}
      [] label = "premiumDisposalSite" -> {"getDisposalSite"}
      [] label = "companies" -> {"getCompaniesByRadius"}
      [] label = "disposalSites" -> {"getDisposalSitesByRadius"}
      [] OTHER -> {}

\* SearchStart with the key check made before the address check
SearchStart_KeyCheckFirst(address, radiusInput, apiKey) ==
    /\ pc = "idle"
    /\ request' = [address |-> address,
                   radiusMiles |-> IF radiusInput = << >> THEN DefaultRadiusMiles
                                   ELSE radiusInput[1],
                   apiKey |-> apiKey]
    /\ ClearLocals
    /\ IF ~apiKey
       THEN pc' = "done" /\ response' = ErrorResponse(503)
       ELSE IF address = << >>
       THEN pc' = "done" /\ response' = ErrorResponse(400)
       ELSE pc' = "geocode" /\ response' = NoResponse
    /\ called' = CallOf(pc')
    /\ UNCHANGED <<storeVars, matchVars, historyVars, apiVars>>

\* the request arrives: body destructuring, the address check, the key check
SearchStart(address, radiusInput, apiKey) ==
    /\ pc = "idle"
    /\ request' = [address |-> address,
                   radiusMiles |-> IF radiusInput = << >> THEN DefaultRadiusMiles
                                   ELSE radiusInput[1],
                   apiKey |-> apiKey]
    /\ ClearLocals
    /\ IF address = << >>
       THEN pc' = "done" /\ response' = ErrorResponse(400)
       ELSE IF ~apiKey
       THEN pc' = "done" /\ response' = ErrorResponse(503)
       ELSE pc' = "geocode" /\ response' = NoResponse
    /\ called' = CallOf(pc')
    /\ UNCHANGED <<storeVars, matchVars, historyVars, apiVars>>

\* fetch or response.json() rejects: the catch block answers 500
GeocodeThrows ==
    /\ pc = "geocode"
    /\ pc' = "done"
    /\ response' = ErrorResponse(500)
    /\ UNCHANGED <<storeVars, matchVars, historyVars, apiVars, request, geocode,
                   premiumLandingPage, premiumCompany, disposalSiteLandingPage,
                   premiumDisposalSite, companiesInRadius, called, geocodeData>>

\* the geocoder answers: steps 1 and 2, up to the first storage read
GeocodeReturns(body) ==
    /\ pc = "geocode"
    /\ geocodeData' = <<body>>
    /\ IF body.status # "OK" \/ Len(body.results) = 0
       THEN /\ pc' = "done"
            /\ response' = ErrorResponse(400)
            /\ UNCHANGED geocode
       ELSE LET geo == ExtractState(body.results[1])
            IN  /\ geocode' = <<geo>>
                /\ pc' = IF geo.stateCode # "" THEN "landingPage" ELSE "companies"
                /\ UNCHANGED response
    /\ called' = called \cup CallOf(pc')
    /\ UNCHANGED <<storeVars, matchVars, historyVars, apiVars, request, premiumLandingPage,
                   premiumCompany, disposalSiteLandingPage, premiumDisposalSite,
                   companiesInRadius>>

\* step 3: await storage.getStateLandingPageByStateCode(stateCode)
ReadLandingPage ==
    /\ pc = "landingPage"
    /\ LET page == getStateLandingPageByStateCode(geocode[1].stateCode)
       IN  /\ premiumLandingPage' = page
           /\ pc' = IF page # << >> /\ PageIsBound(page[1].active, page[1].companyId)
                    THEN "premiumCompany" ELSE "disposalLandingPage"
    /\ called' = called \cup CallOf(pc')
    /\ UNCHANGED <<storeVars, matchVars, historyVars, apiVars, request, geocode, geocodeData,
                   premiumCompany, disposalSiteLandingPage, premiumDisposalSite,
                   companiesInRadius, response>>

\* step 3: await storage.getCompany(premiumLandingPage.companyId)
ReadPremiumCompany ==
    /\ pc = "premiumCompany"
    /\ premiumCompany' = getCompany(premiumLandingPage[1].companyId)
    /\ pc' = "disposalLandingPage"
    /\ called' = called \cup CallOf(pc')
    /\ UNCHANGED <<storeVars, matchVars, historyVars, apiVars, request, geocode, geocodeData,
                   premiumLandingPage, disposalSiteLandingPage, premiumDisposalSite,
                   companiesInRadius, response>>

\* step 3: await storage.getDisposalSiteLandingPageByStateCode(stateCode)
ReadDisposalLandingPage ==
    /\ pc = "disposalLandingPage"
    /\ LET page == getDisposalSiteLandingPageByStateCode(geocode[1].stateCode)
       IN  /\ disposalSiteLandingPage' = page
           /\ pc' = IF page # << >> /\ PageIsBound(page[1].active, page[1].disposalSiteId)
                    THEN "premiumDisposalSite" ELSE "companies"
    /\ called' = called \cup CallOf(pc')
    /\ UNCHANGED <<storeVars, matchVars, historyVars, apiVars, request, geocode, geocodeData,
                   premiumLandingPage, premiumCompany, premiumDisposalSite,
                   companiesInRadius, response>>

\* step 3: await storage.getDisposalSite(disposalSiteLandingPage.disposalSiteId)
ReadPremiumDisposalSite ==
    /\ pc = "premiumDisposalSite"
    /\ premiumDisposalSite' = getDisposalSite(disposalSiteLandingPage[1].disposalSiteId)
    /\ pc' = "companies"
    /\ called' = called \cup CallOf(pc')
    /\ UNCHANGED <<storeVars, matchVars, historyVars, apiVars, request, geocode, geocodeData,
                   premiumLandingPage, premiumCompany, disposalSiteLandingPage,
                   companiesInRadius, response>>

\* step 4: await storage.getCompaniesByRadius(...); a rejected promise goes
\* to the catch block, which answers 500
ReadCompanies ==
    /\ pc = "companies"
    /\ LET matched == FilterCompanies(getAllCompanies, 1, Num(geocode[1].lat),
                                      Num(geocode[1].lng), request.radiusMiles)
       IN  IF matched.threw
           THEN /\ pc' = "done"
                /\ response' = ErrorResponse(500)
                /\ UNCHANGED companiesInRadius
           ELSE /\ companiesInRadius' = matched.rows
                /\ pc' = "disposalSites"
                /\ UNCHANGED response
    /\ called' = called \cup CallOf(pc')
    /\ UNCHANGED <<storeVars, matchVars, historyVars, apiVars, request, geocode, geocodeData,
                   premiumLandingPage, premiumCompany, disposalSiteLandingPage,
                   premiumDisposalSite>>

\* step 5: await storage.getDisposalSitesByRadius(...), then steps 6, 6a and
\* the response, which run without a further await
ReadSitesAndRespond ==
    /\ pc = "disposalSites"
    /\ LET matched == FilterDisposalSites(getAllDisposalSites, 1, Num(geocode[1].lat),
                                          Num(geocode[1].lng), request.radiusMiles,
                                          request.address)
           disposalSitesInRadius == matched.rows
           otherCompanies ==
               OtherCompanies(companiesInRadius, premiumCompany, premiumLandingPage)
       IN  IF matched.threw
           THEN response' = ErrorResponse(500)
           ELSE response' = SearchResponse(geocode[1], premiumLandingPage,
                                           premiumCompany, disposalSiteLandingPage,
                                           premiumDisposalSite, otherCompanies,
                                           disposalSitesInRadius, request.radiusMiles)
    /\ pc' = "done"
    /\ UNCHANGED <<storeVars, matchVars, historyVars, apiVars, request, geocode, geocodeData,
                   premiumLandingPage, premiumCompany, disposalSiteLandingPage,
                   premiumDisposalSite, companiesInRadius, called>>

\* the handler has answered and returns: its locals are gone and the server
\* waits for the next request
SearchEnd ==
    /\ pc = "done"
    /\ pc' = "idle"
    /\ request' = [address |-> << >>, radiusMiles |-> 0, apiKey |-> FALSE]
    /\ ClearLocals
    /\ response' = NoResponse
    /\ called' = {}
    /\ snapshots' = {}
    /\ UNCHANGED <<storeVars, matchVars, writes, apiVars>>

Next ==
    \/ \E address \in Addresses, radiusInput \in RadiusInputs, apiKey \in BOOLEAN :
          SearchStart(address, radiusInput, apiKey)
    \/ GeocodeThrows
    \/ \E body \in GeocodeReplies : GeocodeReturns(body)
    \/ ReadLandingPage
    \/ ReadPremiumCompany
    \/ ReadDisposalLandingPage
    \/ ReadPremiumDisposalSite
    \/ ReadCompanies
    \/ ReadSitesAndRespond
    \/ SearchEnd

Spec == Init /\ [][Next]_vars

\* the same store with one tier per company: a premium company followed by
\* verified ones, the rest basic
InitPages ==
    /\ Init
    /\ \A i \in 1..MaxCompanies :
          companies[i].tier = CASE i > 3 -> "basic"
                                [] i = 1 -> "premium"
                                [] OTHER -> "verified"

\* the search over that store
SpecPages == InitPages /\ [][Next]_vars

(***************************************************************************)
(* The admin writes, made by an authenticated admin while searches run.    *)
(* Each handler awaits one storage call; deleteCompany and                 *)
(* deleteDisposalSite run in one database transaction.                     *)
(***************************************************************************)
\* a subscription row; a null link is 0
Subscription(id, companyId, disposalSiteId) ==
    [id |-> id, companyId |-> companyId, disposalSiteId |-> disposalSiteId]

\* the bodies of the PUT requests: a field that is absent is << >>
CompanyUpdates == {[tier |-> <<"premium">>], [tier |-> <<"free">>]}
SiteUpdates == {[lat |-> <<Text(Chicago.lat)>>, lng |-> <<Text(Chicago.lng)>>]}
PageUpdates ==
    {[active |-> <<a>>, companyId |-> << >>] : a \in {"yes", "no"}} \cup
    {[active |-> << >>, companyId |-> <<c>>] : c \in 1..MaxCompanies}

\* the store changes: the count of writes, and the state of the store that
\* the request being served could see until now
Written ==
    /\ writes < MaxWrites
    /\ writes' = writes + 1
    /\ snapshots' = IF pc \in {"idle", "done"} THEN snapshots
                    ELSE snapshots \cup {storeVars}
    /\ UNCHANGED <<searchVars, matchVars, apiVars>>

\* DeleteCompany that deletes the company row alone
DeleteCompany_RowOnly(id) ==
    /\ companies' = SelectSeq(companies, LAMBDA c : c.id # id)
    /\ UNCHANGED <<disposalSites, stateLandingPages, disposalSiteLandingPages,
                   subscriptions, companyAnalytics>>
    /\ Written

\* DELETE /api/admin/companies/:id
DeleteCompany(id) ==
    /\ subscriptions' =
          [i \in DOMAIN subscriptions |->
              IF subscriptions[i].companyId = id
              THEN [subscriptions[i] EXCEPT !.companyId = 0]
              ELSE subscriptions[i]]
    /\ companyAnalytics' = SelectSeq(companyAnalytics, LAMBDA companyId : companyId # id)
    /\ stateLandingPages' = SelectSeq(stateLandingPages, LAMBDA page : page.companyId # id)
    /\ companies' = SelectSeq(companies, LAMBDA c : c.id # id)
    /\ UNCHANGED <<disposalSites, disposalSiteLandingPages>>
    /\ Written

\* DELETE /api/admin/disposal-sites/:id
DeleteDisposalSite(id) ==
    /\ subscriptions' =
          [i \in DOMAIN subscriptions |->
              IF subscriptions[i].disposalSiteId = id
              THEN [subscriptions[i] EXCEPT !.disposalSiteId = 0]
              ELSE subscriptions[i]]
    /\ disposalSiteLandingPages' =
          SelectSeq(disposalSiteLandingPages, LAMBDA page : page.disposalSiteId # id)
    /\ disposalSites' = SelectSeq(disposalSites, LAMBDA d : d.id # id)
    /\ UNCHANGED <<companies, stateLandingPages, companyAnalytics>>
    /\ Written

\* PUT /api/admin/companies/:id
UpdateCompany(id, updateData) ==
    /\ companies' =
          [i \in DOMAIN companies |->
              IF companies[i].id = id
              THEN [companies[i] EXCEPT !.tier = updateData.tier[1]]
              ELSE companies[i]]
    /\ UNCHANGED <<disposalSites, stateLandingPages, disposalSiteLandingPages,
                   subscriptions, companyAnalytics>>
    /\ Written

\* PUT /api/admin/disposal-sites/:id
UpdateDisposalSite(id, updateData) ==
    /\ disposalSites' =
          [i \in DOMAIN disposalSites |->
              IF disposalSites[i].id = id
              THEN [disposalSites[i] EXCEPT !.lat = updateData.lat[1],
                                            !.lng = updateData.lng[1]]
              ELSE disposalSites[i]]
    /\ UNCHANGED <<companies, stateLandingPages, disposalSiteLandingPages,
                   subscriptions, companyAnalytics>>
    /\ Written

\* PUT /api/admin/state-landing-pages/:id
UpdateStateLandingPage(id, updateData) ==
    /\ stateLandingPages' =
          [i \in DOMAIN stateLandingPages |->
              IF stateLandingPages[i].id = id
              THEN [stateLandingPages[i] EXCEPT
                       !.active = IF updateData.active = << >> THEN @
                                  ELSE updateData.active[1],
                       !.companyId = IF updateData.companyId = << >> THEN @
                                     ELSE updateData.companyId[1]]
              ELSE stateLandingPages[i]]
    /\ UNCHANGED <<companies, disposalSites, disposalSiteLandingPages,
                   subscriptions, companyAnalytics>>
    /\ Written

\* a store with an active Indiana landing page for each category
InitWrites ==
    /\ companies = [i \in 1..MaxCompanies |->
                       SeedCompany(i, CHOOSE t \in TierChoices(i) :
                                         \A u \in TierChoices(i) :
                                             tierOrder(u) <= tierOrder(t))]
    /\ disposalSites = [i \in 1..MaxSites |-> SeedSite(i)]
    /\ stateLandingPages =
          <<CompanyPage(1, "CO", 1, "yes"), CompanyPage(2, "IN", 1, "yes")>>
    /\ disposalSiteLandingPages =
          <<DisposalPage(1, "CO", 1, "yes"), DisposalPage(2, "IN", 1, "yes")>>
    /\ subscriptions = <<Subscription(1, 1, 0), Subscription(2, 0, 1)>>
    /\ companyAnalytics = <<1, 1, 2>>
    /\ SearchIdle
    /\ MatchIdle
    /\ NoWrites
    /\ KeysSet
    /\ ApiIdle

NextWrites ==
    \/ Next
    \/ \E id \in 1..MaxCompanies : DeleteCompany(id)
    \/ \E id \in 1..MaxSites : DeleteDisposalSite(id)
    \/ \E id \in 1..MaxCompanies, updateData \in CompanyUpdates :
          UpdateCompany(id, updateData)
    \/ \E id \in 1..MaxSites, updateData \in SiteUpdates :
          UpdateDisposalSite(id, updateData)
    \/ \E id \in 1..2, updateData \in PageUpdates :
          UpdateStateLandingPage(id, updateData)

SpecWrites == InitWrites /\ [][NextWrites]_vars

(***************************************************************************)
(* The two radius matchers on their own: one provider record, a center, an *)
(* address text, and the matcher applied for a radius.                     *)
(***************************************************************************)
MatchRadii == {0, 1, 150, 3000}

PrimaryCoordinates ==
    {<<Null, Null>>,
     <<Junk, Text(Indianapolis.lng)>>,
     <<Text(Indianapolis.lat), Text(Indianapolis.lng)>>,
     <<Text(FortWayne.lat), Text(FortWayne.lng)>>,
     <<Text(LosAngeles.lat), Text(LosAngeles.lng)>>,
     <<Text(Quito.lat), Text(Quito.lng)>>}

EntryCoordinates ==
    {<<Null, Null>>,
     <<Num(Indianapolis.lat), Num(Indianapolis.lng)>>,
     <<Num(LosAngeles.lat), Num(LosAngeles.lng)>>,
     <<Num(Quito.lat), Num(Quito.lng)>>}

Entries ==
    {NullEntry,
     LocEntry(Null, Null, <<"I", "N">>, << >>),
     LocEntry(Null, Null, << >>, ColoradoText)} \cup
    {LocEntry(c[1], c[2], << >>, << >>) : c \in EntryCoordinates \ {<<Null, Null>>}}

EntryLists == UNION {[1..n -> Entries] : n \in 0..MaxLocs}

Blobs ==
    {NoBlob, BadJsonBlob, ObjectBlob} \cup
    {ArrayBlob(l) : l \in EntryLists} \cup {StringBlob(l) : l \in EntryLists}

Providers ==
    {[id |-> 1, tier |-> "basic", lat |-> c[1], lng |-> c[2],
      additionalLocations |-> b] : c \in PrimaryCoordinates, b \in Blobs}

InitMatch ==
    /\ companies = << >>
    /\ disposalSites = << >>
    /\ stateLandingPages = << >>
    /\ disposalSiteLandingPages = << >>
    /\ subscriptions = << >>
    /\ companyAnalytics = << >>
    /\ SearchIdle
    /\ NoWrites
    /\ KeysSet
    /\ ApiIdle
    /\ \E provider \in Providers, center \in {Indianapolis, Quito},
          address \in {<< >>, IndianaText} :
          mIn = [provider |-> <<provider>>, lat |-> center.lat, lng |-> center.lng,
                 address |-> address]
    /\ mOut = [op |-> "none", radiusMiles |-> 0, result |-> << >>]

MatchCompanies(radiusMiles) ==
    /\ mIn.provider # << >>
    /\ mOut' = [op |-> "companies", radiusMiles |-> radiusMiles,
                result |-> getCompaniesByRadius(mIn.provider, Num(mIn.lat),
                                                Num(mIn.lng), radiusMiles)]
    /\ UNCHANGED <<storeVars, searchVars, historyVars, mIn, apiVars>>

MatchDisposalSites(radiusMiles) ==
    /\ mIn.provider # << >>
    /\ mOut' = [op |-> "disposalSites", radiusMiles |-> radiusMiles,
                result |-> getDisposalSitesByRadius(mIn.provider, Num(mIn.lat),
                                                    Num(mIn.lng), radiusMiles,
                                                    mIn.address)]
    /\ UNCHANGED <<storeVars, searchVars, historyVars, mIn, apiVars>>

NextMatch ==
    \/ \E radiusMiles \in MatchRadii : MatchCompanies(radiusMiles)
    \/ \E radiusMiles \in MatchRadii : MatchDisposalSites(radiusMiles)

SpecMatch == InitMatch /\ [][NextMatch]_vars

(***************************************************************************)
(* Vocabulary of the properties.                                           *)
(***************************************************************************)
Range(seq) == {seq[i] : i \in DOMAIN seq}

Count(seq, x) == Cardinality({i \in DOMAIN seq : seq[i] = x})

\* a latitude/longitude pair that is a coordinate: numbers or numeric text
CarriesCoordinates(lat, lng) ==
    lat.t \in {"num", "text"} /\ lng.t \in {"num", "text"}

\* the entries of additionalLocations, when the column holds an array
AdditionalEntries(provider) ==
    IF provider.additionalLocations.k \in {"array", "string"}
    THEN Range(provider.additionalLocations.locs)
    ELSE {}

\* the resolvable locations of a provider, as <<lat, lng>> pairs
ResolvableLocations(provider) ==
    (IF CarriesCoordinates(provider.lat, provider.lng)
     THEN {<<provider.lat, provider.lng>>} ELSE {})
    \cup {<<e.lat, e.lng>> : e \in {x \in AdditionalEntries(provider) :
                                       ~x.isNull /\ CarriesCoordinates(x.lat, x.lng)}}

SomeLocationInside(provider, lat, lng, radiusMiles) ==
    \E loc \in ResolvableLocations(provider) :
        LET d == calculateDistance(Num(lat), Num(lng), loc[1], loc[2])
        IN  d.t = "num" /\ d.v <= radiusMiles * SCALE

MatcherApplied == mOut.op # "none"

\* C1: a provider of either category is in the radius match result whenever
\* one of its resolvable locations, primary or additional, lies within
\* radiusMiles of the center.
C1_AnyLocationInsideMatches ==
    (MatcherApplied
       /\ SomeLocationInside(mIn.provider[1], mIn.lat, mIn.lng, mOut.radiusMiles))
    => mOut.result = mIn.provider

\* C2: a provider of either category with no resolvable coordinates at all is
\* never in the radius match result, whatever the center, radius and text.
C2_NoCoordinatesNeverMatches ==
    (MatcherApplied /\ ResolvableLocations(mIn.provider[1]) = {})
    => mOut.result = << >>

\* C10: every provider returned for a radius r1 is also returned for every
\* larger radius r2, same center, search text and provider collection.
C10_RadiusMonotone ==
    \A r2 \in MatchRadii :
        (MatcherApplied /\ mOut.radiusMiles < r2) =>
            \A i \in DOMAIN mOut.result :
                mOut.result[i] \in
                    Range(IF mOut.op = "companies"
                          THEN getCompaniesByRadius(mIn.provider, Num(mIn.lat),
                                                    Num(mIn.lng), r2)
                          ELSE getDisposalSitesByRadius(mIn.provider, Num(mIn.lat),
                                                        Num(mIn.lng), r2, mIn.address))

\* a provider matched at 150 miles and at no smaller radius of the model
C10_Witness ==
    /\ mOut.op = "companies"
    /\ mOut.radiusMiles = 150
    /\ mOut.result # << >>
    /\ getCompaniesByRadius(mIn.provider, Num(mIn.lat), Num(mIn.lng), 1) = << >>

\* a location that is malformed: a null entry, or coordinates missing or
\* unparseable, in the primary location or in an additional one
HasMalformedLocation(provider) ==
    \/ ~CarriesCoordinates(provider.lat, provider.lng)
    \/ \E e \in AdditionalEntries(provider) :
          e.isNull \/ ~CarriesCoordinates(e.lat, e.lng)

\* the well-formed locations with both coordinates different from zero
NonZeroLocations(provider) ==
    {loc \in ResolvableLocations(provider) : loc[1].v # 0 /\ loc[2].v # 0}

\* C11: a malformed location entry is skipped on its own: a company with a
\* malformed entry, primary or additional and at whatever position, still
\* matches when another of its entries is valid and within the radius.
C11_MalformedEntrySkippedAlone ==
    (/\ mOut.op = "companies"
     /\ HasMalformedLocation(mIn.provider[1])
     /\ \E loc \in NonZeroLocations(mIn.provider[1]) :
           WithinRadius(calculateDistance(Num(mIn.lat), Num(mIn.lng), loc[1], loc[2]),
                        mOut.radiusMiles))
    => mOut.result = mIn.provider

(***************************************************************************)
(* Properties of the search response.                                      *)
(***************************************************************************)
\* the handler has answered 200
Answered == pc = "done" /\ response.status = 200

\* the landing pages of the searched state, per category
CompanyPagesOfState ==
    {stateLandingPages[i] : i \in {j \in DOMAIN stateLandingPages :
        geocode # << >> /\ stateLandingPages[j].stateCode = geocode[1].stateCode}}

DisposalPagesOfState ==
    {disposalSiteLandingPages[i] : i \in {j \in DOMAIN disposalSiteLandingPages :
        geocode # << >> /\ disposalSiteLandingPages[j].stateCode = geocode[1].stateCode}}

\* the companies (sites) an active page of the searched state is bound to
BoundCompanies ==
    {c \in Range(companies) :
        \E page \in CompanyPagesOfState : page.active = "yes" /\ page.companyId = c.id}

BoundSites ==
    {d \in Range(disposalSites) :
        \E page \in DisposalPagesOfState :
            page.active = "yes" /\ page.disposalSiteId = d.id}

\* the ranking of the tiers
TierRank(tier) ==
    IF tier = "premium" THEN 3
    ELSE IF tier = "featured" THEN 2
    ELSE IF tier = "verified" THEN 1
    ELSE 0

\* position of a row in a listing
Position(rows, row) == CHOOSE i \in DOMAIN rows : rows[i] = row

\* seq lists rows of `rows`, each at most once, in the order of `rows`
InListingOrder(seq, rows) ==
    /\ Range(seq) \subseteq Range(rows)
    /\ \A i, j \in DOMAIN seq :
          i < j => Position(rows, seq[i]) < Position(rows, seq[j])

\* C3: when the searched state has an active company landing page bound to
\* an existing company P that is in the radius match result, the companies of
\* the response hold P at index 0 and exactly once.
C3_PremiumCompanyPinnedFirst ==
    Answered =>
        \A P \in BoundCompanies :
            P \in Range(companiesInRadius) =>
                /\ response.companies # << >>
                /\ response.companies[1] = P
                /\ Count(response.companies, P) = 1

\* C4 as claimed: when a premium disposal site D is resolved for the searched
\* state, the disposalSites of the response hold D at index 0, exactly once.
C4_PremiumSitePinnedFirst ==
    Answered =>
        \A D \in BoundSites :
            /\ response.disposalSites # << >>
            /\ response.disposalSites[1] = D
            /\ Count(response.disposalSites, D) = 1

\* C4 as the code has it: a resolved premium disposal site D is returned as
\* disposalSiteLandingPage.disposalSite; disposalSites is the radius match
\* result in store listing order, D neither removed from it nor moved to the
\* front: D occurs in it at most once, and only if D itself matches.
C4_PremiumSiteNotPinned ==
    Answered =>
        \A D \in BoundSites :
            /\ response.disposalSite = <<D>>
            /\ Count(response.disposalSites, D) <= 1
            /\ InListingOrder(response.disposalSites, disposalSites)
            /\ D \in Range(response.disposalSites) =>
                  DisposalSiteMatches(D, Num(geocode[1].lat), Num(geocode[1].lng),
                                      request.radiusMiles, request.address)

\* the premium disposal site is in disposalSites, behind another site
C4_Witness ==
    /\ Answered
    /\ \E D \in BoundSites :
          /\ response.disposalSite = <<D>>
          /\ D \in Range(response.disposalSites)
          /\ response.disposalSites[1] # D

\* C5: the companies of the response other than a pinned premium entry are
\* in descending tier rank, also when the state has no landing page.
C5_TierOrdering ==
    Answered =>
        LET pinned == {page.companyId : page \in CompanyPagesOfState}
            rest == SelectSeq(response.companies, LAMBDA c : c.id \notin pinned)
        IN  \A i, j \in DOMAIN rest :
                i < j => TierRank(rest[i].tier) >= TierRank(rest[j].tier)

\* C6: whenever the searched state has an active company landing page bound
\* to a company that exists, premiumLandingPage.company is that company,
\* for every radius, inside the radius match result or not.
C6_PremiumIgnoresDistance ==
    Answered => \A P \in BoundCompanies : response.company = <<P>>

\* the premium company is returned although the radius matcher left it out
C6_Witness ==
    /\ Answered
    /\ \E P \in BoundCompanies :
          response.company = <<P>> /\ P \notin Range(companiesInRadius)

\* C7: with no landing page for (state, category), or one whose active flag
\* is not set, the premium provider of that category is null.
C7_NoActivePageNoPremium ==
    Answered =>
        /\ (\A page \in CompanyPagesOfState : page.active # "yes")
              => response.company = << >>
        /\ (\A page \in DisposalPagesOfState : page.active # "yes")
              => response.disposalSite = << >>

\* an inactive page bound to an existing company, and no premium company
C7_Witness ==
    /\ Answered
    /\ \E page \in CompanyPagesOfState :
          /\ page.active = "no"
          /\ \E c \in Range(companies) : c.id = page.companyId
    /\ response.company = << >>

\* what a search answers for companies when the state has no company page:
\* the radius match result as it is
NoCompanyPageBaseline ==
    (Answered /\ CompanyPagesOfState = {}) =>
        /\ response.companies = companiesInRadius
        /\ response.company = << >>
        /\ response.hasRadiusResults =
              (companiesInRadius # << >> \/ response.disposalSites # << >>)

\* C8: an inactive company landing page has no effect: companies (content and
\* order), the premium provider and hasRadiusResults are what they are for
\* the same store without the page.
C8_InactivePageHasNoEffect ==
    (Answered /\ CompanyPagesOfState # {}
       /\ \A page \in CompanyPagesOfState : page.active # "yes") =>
        /\ response.companies = companiesInRadius
        /\ response.company = << >>
        /\ response.hasRadiusResults =
              (companiesInRadius # << >> \/ response.disposalSites # << >>)

\* an active page of the searched state bound to an id that no row has
DanglingCompanyPage ==
    \E page \in CompanyPagesOfState :
        /\ page.active = "yes" /\ page.companyId # 0
        /\ \A c \in Range(companies) : c.id # page.companyId

DanglingDisposalPage ==
    \E page \in DisposalPagesOfState :
        /\ page.active = "yes" /\ page.disposalSiteId # 0
        /\ \A d \in Range(disposalSites) : d.id # page.disposalSiteId

\* C9: an active landing page bound to an id that no longer exists resolves
\* no premium provider for its category, and the search still answers 200.
C9_MissingTargetIsNoOp ==
    (pc = "done" /\ geocode # << >>) =>
        /\ DanglingCompanyPage => response.status = 200 /\ response.company = << >>
        /\ DanglingDisposalPage => response.status = 200 /\ response.disposalSite = << >>

\* a search answered 200 over a page whose company is gone
C9_Witness ==
    /\ Answered
    /\ DanglingCompanyPage
    /\ response.premiumLandingPage # << >>
    /\ response.company = << >>

\* the matched companies once a resolved premium company is taken out
MatchedBesidesPremium ==
    {c \in Range(companiesInRadius) :
        premiumCompany = << >> \/ c.id # premiumCompany[1].id}

\* the disposal sites of the store that match the search
MatchedSites ==
    {d \in Range(disposalSites) :
        DisposalSiteMatches(d, Num(geocode[1].lat), Num(geocode[1].lng),
                            request.radiusMiles, request.address)}

C13_TrueUnlessBothMatchesEmpty ==
    Answered =>
        (response.hasRadiusResults <=>
            ~(companiesInRadius = << >> /\ MatchedSites = {}))

\* C14: a search whose radiusMiles is not greater than zero is answered with
\* a 400-class error before the geocoder or the store is consulted.
C14_NonPositiveRadiusRejected ==
    (pc # "idle" /\ request.radiusMiles <= 0) =>
        /\ pc = "done"
        /\ response.status \in 400..499
        /\ called = {}

GeocodingFailed == pc = "done" /\ "fetch" \in called /\ geocode = << >>

\* the geocoder answered that the address has no candidate
NoCandidateFound ==
    /\ geocodeData # << >>
    /\ geocodeData[1].status \in {"OK", "ZERO_RESULTS"}
    /\ Len(geocodeData[1].results) = 0

\* C16: the geocode error outcomes are distinct: an address with no candidate
\* is answered with a 400-class error; a geocoder call that fails or a
\* geocoder that refuses the request is answered with an error of the 5xx
\* class of 503, never with the 400 of 'no results'.
C16_GeocodeErrorsDistinct ==
    GeocodingFailed =>
        IF NoCandidateFound
        THEN response.status \in 400..499
        ELSE response.status \in 500..599

\* the primary location of a provider is valid and within the searched radius
PrimaryInside(provider) ==
    /\ CarriesCoordinates(provider.lat, provider.lng)
    /\ WithinRadius(calculateDistance(Num(geocode[1].lat), Num(geocode[1].lng),
                                      parseFloat(provider.lat),
                                      parseFloat(provider.lng)),
                    request.radiusMiles)

\* C17: once geocoding has succeeded the search ends with a 200 response,
\* whatever malformed provider records the store holds, and every provider
\* whose primary location is within the radius is in the match result of its
\* category.
C17_MalformedRecordsNeverFailSearch ==
    (pc = "done" /\ geocode # << >>) =>
        /\ response.status = 200
        /\ \A c \in Range(companies) :
              PrimaryInside(c) => c \in Range(companiesInRadius)
        /\ \A d \in Range(disposalSites) :
              PrimaryInside(d) => d \in Range(response.disposalSites)

\* a 200 response over a store where a record with unparseable JSON and a
\* record with a null entry were both read through and left out, while
\* another company matched
C17_Witness ==
    /\ Answered
    /\ \E c \in Range(companies) \ Range(companiesInRadius) :
          c.additionalLocations.k = "badjson"
    /\ \E c \in Range(companies) \ Range(companiesInRadius) :
          \E e \in AdditionalEntries(c) : e.isNull
    /\ companiesInRadius # << >>

\* the first geocode candidate of a request whose geocoding succeeded
FirstCandidate == geocodeData[1].results[1]

\* C19: searchType is "state" exactly when the result types of the first
\* geocode candidate include administrative_area_level_1 and "local"
\* otherwise, whether or not a state code was extracted or a landing page
\* exists.
C19_SearchTypeFromResultTypes ==
    Answered =>
        response.searchType =
            IF "administrative_area_level_1" \in FirstCandidate.types
            THEN "state" ELSE "local"

\* a local search that has a state and was given the landing page of the state
C19_Witness ==
    /\ Answered
    /\ response.searchType = "local"
    /\ response.state # ""
    /\ response.premiumLandingPage # << >>

\* the positions of the administrative_area_level_1 components of the first
\* candidate
StatePositions ==
    {i \in DOMAIN FirstCandidate.address_components :
        "administrative_area_level_1" \in FirstCandidate.address_components[i].types}

LandingCalls ==
    {"getStateLandingPageByStateCode", "getCompany",
     "getDisposalSiteLandingPageByStateCode", "getDisposalSite"}

\* C20: when the first candidate has no administrative_area_level_1
\* component, stateCode and stateName are null, the response state is null,
\* no landing page is looked up for either category and both premium
\* providers are null; when it has one, stateCode and stateName are the
\* short and the long name of the first such component.
C20_StateFromFirstComponent ==
    geocode # << >> =>
        IF StatePositions = {}
        THEN /\ geocode[1].stateCode = "" /\ geocode[1].stateName = ""
             /\ called \cap LandingCalls = {}
             /\ Answered =>
                   /\ response.state = "" /\ response.stateName = ""
                   /\ response.premiumLandingPage = << >>
                   /\ response.company = << >>
                   /\ response.disposalSiteLandingPage = << >>
                   /\ response.disposalSite = << >>
        ELSE LET first == CHOOSE i \in StatePositions :
                              \A j \in StatePositions : i <= j
             IN  /\ geocode[1].stateCode =
                       FirstCandidate.address_components[first].short_name
                 /\ geocode[1].stateName =
                       FirstCandidate.address_components[first].long_name
                 /\ Answered =>
                       /\ response.state = geocode[1].stateCode
                       /\ response.stateName = geocode[1].stateName

\* a 200 response for a place without a state, over a store with landing pages
C20_Witness ==
    /\ Answered
    /\ StatePositions = {}
    /\ stateLandingPages # << >>
    /\ response.state = ""

\* the 200 response of the search computed in one go over one state of the
\* store, for a geocoded location and a request
SearchOn(store, geo, req) ==
    LET page == IF geo.stateCode = "" THEN << >>
                ELSE First(SelectSeq(store[3], LAMBDA p :
                               p.stateCode = toUpperCase(geo.stateCode)))
        company == IF page # << >> /\ PageIsBound(page[1].active, page[1].companyId)
                   THEN First(SelectSeq(store[1], LAMBDA c : c.id = page[1].companyId))
                   ELSE << >>
        sitePage == IF geo.stateCode = "" THEN << >>
                    ELSE First(SelectSeq(store[4], LAMBDA p :
                                   p.stateCode = toUpperCase(geo.stateCode)))
        site == IF sitePage # << >>
                   /\ PageIsBound(sitePage[1].active, sitePage[1].disposalSiteId)
                THEN First(SelectSeq(store[2], LAMBDA d :
                               d.id = sitePage[1].disposalSiteId))
                ELSE << >>
        inRadius == getCompaniesByRadius(store[1], Num(geo.lat), Num(geo.lng),
                                         req.radiusMiles)
        sites == getDisposalSitesByRadius(store[2], Num(geo.lat), Num(geo.lng),
                                          req.radiusMiles, req.address)
    IN  SearchResponse(geo, page, company, sitePage, site,
                       OtherCompanies(inRadius, company, page), sites,
                       req.radiusMiles)

\* C18: whatever admin writes interleave with the store reads of one search,
\* the 200 response it sends equals the response computed against one single
\* state the store had while the request was served.
C18_ResponseFromOneSnapshot ==
    [][(pc = "disposalSites" /\ pc' = "done" /\ response'.status = 200) =>
          \E store \in snapshots \cup {storeVars} :
              response' = SearchOn(store, geocode[1], request)]_vars

\* the company part of the answer to a search, computed from the company
\* tables alone
CompanySide(allCompanies, pages, geo, req) ==
    LET page == IF geo.stateCode = "" THEN << >>
                ELSE First(SelectSeq(pages, LAMBDA p :
                               p.stateCode = toUpperCase(geo.stateCode)))
        company == IF page # << >> /\ page[1].active = "yes" /\ page[1].companyId # 0
                   THEN First(SelectSeq(allCompanies, LAMBDA c :
                                  c.id = page[1].companyId))
                   ELSE << >>
    IN  [page |-> page, company |-> company,
         companies |-> OtherCompanies(
                           getCompaniesByRadius(allCompanies, Num(geo.lat),
                                                Num(geo.lng), req.radiusMiles),
                           company, page)]

\* the disposal-site part, computed from the disposal-site tables alone
SiteSide(allSites, pages, geo, req) ==
    LET page == IF geo.stateCode = "" THEN << >>
                ELSE First(SelectSeq(pages, LAMBDA p :
                               p.stateCode = toUpperCase(geo.stateCode)))
        site == IF page # << >> /\ page[1].active = "yes" /\ page[1].disposalSiteId # 0
                THEN First(SelectSeq(allSites, LAMBDA d :
                               d.id = page[1].disposalSiteId))
                ELSE << >>
    IN  [page |-> page, site |-> site,
         sites |-> getDisposalSitesByRadius(allSites, Num(geo.lat), Num(geo.lng),
                                            req.radiusMiles, req.address)]

\* C21: premium resolution is independent per category: the premium company
\* and the content and order of `companies` are determined by the company
\* tables, the location and the request alone, so no change of the
\* disposal-site landing page of the state changes them; likewise the premium
\* disposal site and `disposalSites` are determined by the disposal-site
\* tables alone.
C21_CategoriesIndependent ==
    Answered =>
        LET c == CompanySide(companies, stateLandingPages, geocode[1], request)
            d == SiteSide(disposalSites, disposalSiteLandingPages, geocode[1], request)
        IN  /\ response.premiumLandingPage = c.page
            /\ response.company = c.company
            /\ response.companies = c.companies
            /\ response.disposalSiteLandingPage = d.page
            /\ response.disposalSite = d.site
            /\ response.disposalSites = d.sites

\* a response with a premium provider of each category
C21_Witness ==
    /\ Answered
    /\ response.company # << >>
    /\ response.disposalSite # << >>

\* the companies of the response that no landing page of the state pins
Remainder ==
    LET pinned == {page.companyId : page \in CompanyPagesOfState}
    IN  SelectSeq(response.companies, LAMBDA c : c.id \notin pinned)

\* distance of a company's primary location from the center of the search
PrimaryDistance(company) ==
    calculateDistance(Num(geocode[1].lat), Num(geocode[1].lng),
                      parseFloat(company.lat), parseFloat(company.lng))

DistancePoints ==
    {Indianapolis, NearIndianapolis, FortWayne, Chicago, LosAngeles, Quito,
     [lat |-> -3387, lng |-> 15121], [lat |-> 5151, lng |-> -13],
     [lat |-> 0, lng |-> 0], [lat |-> 9000, lng |-> 0],
     [lat |-> -3977, lng |-> 9384]}

InitDistance ==
    /\ EmptyStore
    /\ SearchIdle
    /\ NoWrites
    /\ KeysSet
    /\ ApiIdle
    /\ \E a \in DistancePoints, b \in DistancePoints :
          mIn = [provider |-> <<[id |-> 1, tier |-> "basic", lat |-> Num(b.lat),
                                 lng |-> Num(b.lng), additionalLocations |-> NoBlob]>>,
                 lat |-> a.lat, lng |-> a.lng, address |-> << >>]
    /\ mOut = [op |-> "none", radiusMiles |-> 0, result |-> << >>]

\* the distance from the center to the location, back, and to the center
MeasureDistance ==
    LET a == [lat |-> Num(mIn.lat), lng |-> Num(mIn.lng)]
        b == mIn.provider[1]
    IN  /\ mOut.op = "none"
        /\ mOut' = [op |-> "distance", radiusMiles |-> 0,
                    result |-> <<calculateDistance(a.lat, a.lng, b.lat, b.lng),
                                 calculateDistance(b.lat, b.lng, a.lat, a.lng),
                                 calculateDistance(a.lat, a.lng, a.lat, a.lng)>>]
        /\ UNCHANGED <<storeVars, searchVars, historyVars, mIn, apiVars>>

SpecDistance == InitDistance /\ [][MeasureDistance]_vars

CompanyIds(rows) == {rows[i].id : i \in DOMAIN rows}

\* nothing in the store refers to company id
NoCompanyReference(id, pages, events, subs) ==
    /\ \A i \in DOMAIN pages : pages[i].companyId # id
    /\ \A i \in DOMAIN events : events[i] # id
    /\ \A i \in DOMAIN subs : subs[i].companyId # id

\* nothing in the store refers to disposal site id
NoDisposalSiteReference(id, pages, subs) ==
    /\ \A i \in DOMAIN pages : pages[i].disposalSiteId # id
    /\ \A i \in DOMAIN subs : subs[i].disposalSiteId # id

\* C25: cascading delete: the step that removes company id from the store
\* leaves no state landing page, no analytics event and no subscription that
\* refers to id, and the step that removes disposal site id leaves no
\* disposal-site landing page and no subscription that refers to it; the
\* cleanup is one step, so no state in between is observed.
C25_CascadingDelete ==
    [][/\ \A id \in CompanyIds(companies) \ CompanyIds(companies') :
             NoCompanyReference(id, stateLandingPages', companyAnalytics',
                                subscriptions')
       /\ \A id \in CompanyIds(disposalSites) \ CompanyIds(disposalSites') :
             NoDisposalSiteReference(id, disposalSiteLandingPages',
                                     subscriptions')]_vars

\* company 1, which a landing page, two analytics events and a subscription
\* referred to, has been deleted
C25_Witness ==
    /\ writes > 0
    /\ 1 \notin CompanyIds(companies)
    /\ 2 \in CompanyIds(companies)

(***************************************************************************)
(* Admin authentication: the middleware isAdmin and requireAdmin, and the  *)
(* login and logout routes.  A middleware answers with a status or calls   *)
(* next(), which runs the guarded handler; Next_ stands for that call.     *)
(***************************************************************************)
Next_ == 0

\* isAdmin without the test that ADMIN_API_KEY is configured
isAdmin_KeyNotRequired(apiKey) ==
    IF ~IsSet(apiKey) THEN 401
    ELSE IF apiKey # env.ADMIN_API_KEY THEN 403
    ELSE Next_

\* isAdmin: the status it answers, or Next_
isAdmin(apiKey) ==
    IF ~IsSet(env.ADMIN_API_KEY) THEN 500
    ELSE IF ~IsSet(apiKey) THEN 401
    ELSE IF apiKey # env.ADMIN_API_KEY THEN 403
    ELSE Next_

\* requireAdmin: session first, then the API key header
requireAdmin(sessionIsAdmin, apiKey) ==
    IF ~IsSet(env.ADMIN_API_KEY) THEN 500
    ELSE IF sessionIsAdmin THEN Next_
    ELSE IF IsSet(apiKey) /\ apiKey = env.ADMIN_API_KEY THEN Next_
    ELSE 401

\* the login route with a password that is only required to be present
login_AnyPassword(password) ==
    IF ~IsSet(env.ADMIN_API_KEY) THEN 500
    ELSE IF ~IsSet(password) THEN 401
    ELSE 200

\* POST /api/admin/login: the status it answers
login(password) ==
    IF ~IsSet(env.ADMIN_API_KEY) THEN 500
    ELSE IF ~IsSet(password) \/ password # env.ADMIN_API_KEY THEN 401
    ELSE 200

\* a request to a route guarded by isAdmin
IsAdminRequest(s, apiKey) ==
    /\ reply' = [NoReply EXCEPT !.op = "isAdmin", !.session = s, !.apiKey = apiKey,
                                !.status = IF isAdmin(apiKey) = Next_ THEN 200
                                           ELSE isAdmin(apiKey),
                                !.next = (isAdmin(apiKey) = Next_)]
    /\ UNCHANGED <<storeVars, searchVars, matchVars, historyVars, env, sessions,
                   lastChange, partners, checkoutSessions, deliveries>>

\* a request to a route guarded by requireAdmin
RequireAdminRequest(s, apiKey) ==
    LET outcome == requireAdmin(sessions[s], apiKey)
    IN  /\ reply' = [NoReply EXCEPT !.op = "requireAdmin", !.session = s,
                                    !.apiKey = apiKey,
                                    !.status = IF outcome = Next_ THEN 200 ELSE outcome,
                                    !.next = (outcome = Next_)]
        /\ UNCHANGED <<storeVars, searchVars, matchVars, historyVars, env, sessions,
                       lastChange, partners, checkoutSessions, deliveries>>

\* POST /api/admin/login
AdminLogin(s, password) ==
    LET status == login(password)
    IN  /\ reply' = [NoReply EXCEPT !.op = "login", !.session = s,
                                    !.password = password, !.status = status]
        /\ IF status = 200
           THEN /\ sessions' = [sessions EXCEPT ![s] = TRUE]
                /\ lastChange' = [lastChange EXCEPT
                                     ![s] = [kind |-> "login", password |-> password]]
           ELSE UNCHANGED <<sessions, lastChange>>
        /\ UNCHANGED <<storeVars, searchVars, matchVars, historyVars, env,
                       partners, checkoutSessions, deliveries>>

\* POST /api/admin/logout: the flag is cleared and the session destroyed
AdminLogout(s) ==
    /\ sessions' = [sessions EXCEPT ![s] = FALSE]
    /\ lastChange' = [lastChange EXCEPT ![s] = [kind |-> "logout", password |-> Undefined]]
    /\ reply' = [NoReply EXCEPT !.op = "logout", !.session = s, !.status = 200]
    /\ UNCHANGED <<storeVars, searchVars, matchVars, historyVars, env,
                   partners, checkoutSessions, deliveries>>

\* what a client may send as x-admin-api-key or as password
Credentials == {Undefined, Str(""), Str("k"), Str("x")}

InitAdmin ==
    /\ EmptyStore
    /\ SearchIdle
    /\ MatchIdle
    /\ NoWrites
    /\ ApiIdle
    /\ \E key \in {Undefined, Str(""), Str("k")} :
          env = [ADMIN_API_KEY |-> key, ADMIN_MIGRATION_KEY |-> Undefined,
                 STRIPE_SECRET_KEY |-> Undefined,
                 GOOGLE_API_KEY |-> Str("g")]

NextAdmin ==
    \/ \E s \in 1..MaxSessions, apiKey \in Credentials : IsAdminRequest(s, apiKey)
    \/ \E s \in 1..MaxSessions, apiKey \in Credentials : RequireAdminRequest(s, apiKey)
    \/ \E s \in 1..MaxSessions, password \in Credentials : AdminLogin(s, password)
    \/ \E s \in 1..MaxSessions : AdminLogout(s)

SpecAdmin == InitAdmin /\ [][NextAdmin]_vars

\* C26: admin checks fail closed: when ADMIN_API_KEY is not configured every
\* request guarded by isAdmin or requireAdmin and every login attempt is
\* answered 500, the guarded handler is not run and no session is admin;
\* when it is configured a guarded handler runs only if the x-admin-api-key
\* header equals the key or, under requireAdmin, the session is admin.
C26_AdminChecksFailClosed ==
    IF ~IsSet(env.ADMIN_API_KEY)
    THEN /\ reply.op \in {"isAdmin", "requireAdmin", "login"} =>
                reply.status = 500 /\ ~reply.next
         /\ \A s \in 1..MaxSessions : ~sessions[s]
    ELSE /\ (reply.op = "isAdmin" /\ reply.next) => reply.apiKey = env.ADMIN_API_KEY
         /\ (reply.op = "requireAdmin" /\ reply.next) =>
                reply.apiKey = env.ADMIN_API_KEY \/ sessions[reply.session]

\* a guarded request with an empty key header, sent to a deployment whose
\* ADMIN_API_KEY is the empty string, has been rejected
C26_Witness ==
    /\ env.ADMIN_API_KEY = Str("")
    /\ reply.op = "isAdmin"
    /\ reply.apiKey = Str("")
    /\ reply.status = 500

\* the session is admin exactly when its last login that succeeded or logout
\* was a login with the password ADMIN_API_KEY
AdminIffLoggedIn ==
    \A s \in 1..MaxSessions :
        sessions[s] <=> /\ lastChange[s].kind = "login"
                        /\ IsSet(env.ADMIN_API_KEY)
                        /\ lastChange[s].password = env.ADMIN_API_KEY

\* a login that was refused
FailedLogin == reply.op = "login" /\ reply.status # 200

\* a requireAdmin request without a valid key header, on a session whose last
\* change was a logout
GuardedAfterLogout ==
    /\ reply.op = "requireAdmin"
    /\ lastChange[reply.session].kind = "logout"
    /\ ~(IsSet(env.ADMIN_API_KEY) /\ reply.apiKey = env.ADMIN_API_KEY)

MaxCheckouts == 1

\* the tier test with every tier let through
ValidTier_AnyTier(tier) == TRUE

\* ["verified", "featured", "premium"].includes(tier)
ValidTier(tier) == tier \in {Str("verified"), Str("featured"), Str("premium")}

\* the status of the answer; 200 is the answer with the URL of the session
\* that stripe.checkout.sessions.create made
CheckoutStatus(tier, billing, coverage, catalogue) ==
    IF ~IsSet(env.STRIPE_SECRET_KEY) THEN 503
    ELSE IF ~IsSet(tier) \/ ~IsSet(billing) THEN 400
    ELSE IF tier \in {Str("state_landing"), Str("disposal_site_landing")} THEN 400
    ELSE IF ~ValidTier(tier) THEN 400
    ELSE IF billing \notin {Str("monthly"), Str("annual")} THEN 400
    ELSE IF ~catalogue.pricingTier THEN 404
    ELSE IF IsSet(coverage) /\ coverage # Str("single") /\ ~catalogue.coverageTier
         THEN 400
    ELSE IF IsSet(coverage) /\ coverage # Str("single") /\ ~catalogue.coveragePrice
         THEN 500
    ELSE IF ~(IsSet(coverage) /\ coverage # Str("single")) /\ ~catalogue.priceId
         THEN 500
    ELSE IF catalogue.stripeThrows THEN 500
    ELSE 200

CreateCheckoutSession(tier, billing, coverage, catalogue) ==
    LET status == CheckoutStatus(tier, billing, coverage, catalogue)
        \* the metadata of the session created
        metadata == [tier |-> tier[1], billingCycle |-> billing[1],
                     coverage |-> IF IsSet(coverage) THEN coverage[1] ELSE "single"]
    IN  /\ Cardinality(checkoutSessions) < MaxCheckouts
        /\ checkoutSessions' =
               IF status = 200
               THEN checkoutSessions \cup {metadata}
               ELSE checkoutSessions
        /\ reply' = [NoReply EXCEPT
                        !.op = "checkout", !.status = status,
                        !.body = <<[tier |-> tier, billing |-> billing,
                                    coverage |-> coverage]>>]
        /\ UNCHANGED <<storeVars, searchVars, matchVars, historyVars, env, sessions,
                       lastChange, partners, deliveries>>

Catalogue(pricingTier, priceId, coverageTier, coveragePrice, stripeThrows) ==
    [pricingTier |-> pricingTier, priceId |-> priceId, coverageTier |-> coverageTier,
     coveragePrice |-> coveragePrice, stripeThrows |-> stripeThrows]

InitCheckout ==
    /\ EmptyStore
    /\ SearchIdle
    /\ MatchIdle
    /\ NoWrites
    /\ ApiIdle
    /\ \E key \in {Undefined, Str("sk")} :
          env = [ADMIN_API_KEY |-> Str("k"), ADMIN_MIGRATION_KEY |-> Str("m"),
                 STRIPE_SECRET_KEY |-> key,
                 GOOGLE_API_KEY |-> Str("g")]

\* the catalogue has every row; or one of them is missing; or Stripe fails
NextCheckout ==
    \E tier \in {Undefined, Str("state_landing"), Str("disposal_site_landing"),
                 Str("verified"), Str("featured"), Str("premium"), Str("basic")},
       billing \in {Undefined, Str("monthly"), Str("annual"), Str("weekly")},
       coverage \in {Undefined, Str("single"), Str("nationwide")},
       catalogue \in {Catalogue(TRUE, TRUE, TRUE, TRUE, FALSE),
                      Catalogue(FALSE, FALSE, FALSE, FALSE, FALSE),
                      Catalogue(TRUE, FALSE, TRUE, TRUE, FALSE),
                      Catalogue(TRUE, TRUE, FALSE, FALSE, FALSE),
                      Catalogue(TRUE, TRUE, TRUE, FALSE, FALSE),
                      Catalogue(TRUE, TRUE, TRUE, TRUE, TRUE)} :
        CreateCheckoutSession(tier, billing, coverage, catalogue)

SpecCheckout == InitCheckout /\ [][NextCheckout]_vars

\* a request for a tier other than verified, featured, premium (the landing
\* tiers among them) or for a billing cycle other than monthly, annual
OutsideCheckout(req) ==
    \/ req.tier \notin {Str("verified"), Str("featured"), Str("premium")}
    \/ req.billing \notin {Str("monthly"), Str("annual")}

\* C28: the checkout endpoint never creates a Stripe checkout session for
\* tier state_landing or disposal_site_landing, nor for any tier other than
\* verified, featured, premium or any billing cycle other than monthly,
\* annual: every such request is answered with an error and creates no
\* session.
C28_CheckoutRejectsOtherTiers ==
    [][/\ \A session \in checkoutSessions' :
             /\ session.tier \in {"verified", "featured", "premium"}
             /\ session.billingCycle \in {"monthly", "annual"}
       /\ (reply'.op = "checkout" /\ OutsideCheckout(reply'.body[1])) =>
             /\ reply'.status >= 400
             /\ checkoutSessions' = checkoutSessions]_vars

\* a request for the tier state_landing, with a valid billing cycle and every
\* price configured, has been answered 400
C28_Witness ==
    /\ IsSet(env.STRIPE_SECRET_KEY)
    /\ reply.op = "checkout"
    /\ reply.body[1].tier = Str("state_landing")
    /\ reply.body[1].billing = Str("annual")
    /\ reply.status = 400
    /\ checkoutSessions = {}

(***************************************************************************)
(* POST /api/migrate-production: handleProductionMigration.  The exported  *)
(* files are an input of the request.                                      *)
(***************************************************************************)
\* the test of the secret key: secretKey !== process.env.ADMIN_MIGRATION_KEY;
\* two undefined values are equal
MigrationKeyRejected(secretKey) == secretKey # env.ADMIN_MIGRATION_KEY

\* the rows inserted for companies_export.json; a missing tier becomes "free"
MigratedCompanies(companiesData, firstId) ==
    [i \in DOMAIN companiesData |->
        [id |-> firstId + i,
         tier |-> IF IsSet(companiesData[i].tier) THEN companiesData[i].tier[1]
                  ELSE "free",
         lat |-> companiesData[i].lat, lng |-> companiesData[i].lng,
         additionalLocations |-> NoBlob]]

\* the rows inserted for disposal_sites_export.json
MigratedSites(sitesData, firstId) ==
    [i \in DOMAIN sitesData |->
        [id |-> firstId + i, lat |-> sitesData[i].lat, lng |-> sitesData[i].lng,
         additionalLocations |-> NoBlob]]

\* the exported files: companies, disposal sites and partners; the two files
\* of landing pages hold empty arrays
ExportedCompany(tier) ==
    [tier |-> tier, lat |-> Text(FortWayne.lat), lng |-> Text(FortWayne.lng)]
Exports ==
    {[companies |-> c, disposalSites |-> d, partners |-> p] :
        c \in {<< >>, <<ExportedCompany(Undefined)>>,
               <<ExportedCompany(Str("premium")), ExportedCompany(Str(""))>>},
        d \in {<< >>, <<[lat |-> Text(Chicago.lat), lng |-> Text(Chicago.lng)]>>},
        p \in {<< >>, <<"partner">>}}

\* the five tables the migration clears
MigratedTables ==
    <<companies, disposalSites, partners, stateLandingPages, disposalSiteLandingPages>>

HandleProductionMigration(secretKey, hasExportedData, exported, insertThrows) ==
    LET status == IF MigrationKeyRejected(secretKey) THEN 403
                  ELSE IF ~hasExportedData THEN 400
                  ELSE IF insertThrows THEN 500
                  ELSE 200
    IN  /\ reply' = [NoReply EXCEPT !.op = "migrate", !.status = status,
                                    !.body = <<[secretKey |-> secretKey]>>]
        /\ IF status \in {403, 400}
           THEN UNCHANGED <<companies, disposalSites, partners, stateLandingPages,
                            disposalSiteLandingPages>>
           ELSE /\ stateLandingPages' = << >>
                /\ disposalSiteLandingPages' = << >>
                /\ IF insertThrows
                   THEN /\ companies' = << >>
                        /\ disposalSites' = << >>
                        /\ partners' = << >>
                   ELSE /\ companies' = MigratedCompanies(exported.companies,
                                                          Len(companies))
                        /\ disposalSites' = MigratedSites(exported.disposalSites,
                                                          Len(disposalSites))
                        /\ partners' = exported.partners
        /\ UNCHANGED <<subscriptions, companyAnalytics, searchVars, matchVars,
                       historyVars, env, sessions, lastChange, checkoutSessions,
                       deliveries>>

InitMigration ==
    /\ companies = <<SeedCompany(1, "premium")>>
    /\ disposalSites = <<SeedSite(1)>>
    /\ stateLandingPages = <<CompanyPage(1, "IN", 1, "yes")>>
    /\ disposalSiteLandingPages = <<DisposalPage(1, "IN", 1, "yes")>>
    /\ subscriptions = << >>
    /\ companyAnalytics = << >>
    /\ SearchIdle
    /\ MatchIdle
    /\ NoWrites
    /\ sessions = [s \in 1..MaxSessions |-> FALSE]
    /\ lastChange = [s \in 1..MaxSessions |-> NoChange]
    /\ reply = NoReply
    /\ partners = <<"sponsor">>
    /\ checkoutSessions = {}
    /\ deliveries = << >>
    /\ \E key \in {Undefined, Str(""), Str("m")} :
          env = [ADMIN_API_KEY |-> Str("k"), ADMIN_MIGRATION_KEY |-> key,
                 STRIPE_SECRET_KEY |-> Undefined,
                 GOOGLE_API_KEY |-> Str("g")]

NextMigration ==
    \E secretKey \in {Undefined, Str(""), Str("m"), Str("x")}, hasExportedData \in BOOLEAN,
       exported \in Exports, insertThrows \in BOOLEAN :
        HandleProductionMigration(secretKey, hasExportedData, exported, insertThrows)

SpecMigration == InitMigration /\ [][NextMigration]_vars

\* C29: the production migration endpoint fails closed: rows are deleted or
\* inserted only for a request whose secretKey equals a configured
\* ADMIN_MIGRATION_KEY; every other request, a request without secretKey
\* sent while ADMIN_MIGRATION_KEY is not configured among them, is answered
\* 403 and leaves all five tables unchanged.
C29_MigrationFailsClosed ==
    [][(/\ reply'.op = "migrate"
        /\ ~(IsSet(env.ADMIN_MIGRATION_KEY)
               /\ reply'.body[1].secretKey = env.ADMIN_MIGRATION_KEY))
       => /\ reply'.status = 403
          /\ MigratedTables' = MigratedTables]_vars

(***************************************************************************)
(* POST /api/stripe-webhook, event checkout.session.completed.  A delivery *)
(* is handled in steps, one per await: the lookup by Stripe id, then the   *)
(* update or the insert.  Deliveries are handled concurrently.             *)
(***************************************************************************)
MaxDeliveries == 2
MaxSubscriptions == 3

\* storage.getSubscriptionByStripeId: << >> or <<the first row found>>
getSubscriptionByStripeId(stripeSubscriptionId) ==
    First(SelectSeq(subscriptions,
                    LAMBDA sub : sub.stripeSubscriptionId = stripeSubscriptionId))

\* storage.createSubscription: a plain insert; the links of the row that the
\* webhook makes are null
createSubscription(stripeSubscriptionId, customerEmail) ==
    Append(subscriptions,
           [id |-> Len(subscriptions) + 1, companyId |-> 0, disposalSiteId |-> 0,
            stripeSubscriptionId |-> stripeSubscriptionId,
            customerEmail |-> customerEmail, status |-> "active"])

\* storage.updateSubscription(id, {status: 'active', customerEmail})
updateSubscription(id, customerEmail) ==
    [i \in DOMAIN subscriptions |->
        IF subscriptions[i].id = id
        THEN [subscriptions[i] EXCEPT !.status = "active",
                                      !.customerEmail = customerEmail]
        ELSE subscriptions[i]]

\* a handler that is not serving a delivery
NoDelivery ==
    [pc |-> "idle", subscriptionId |-> "", customerEmail |-> "",
     existingSubscription |-> << >>, status |-> 0]

\* the checks made before the lookup: the status answered, or 0 to go on
WebhookChecks(event) ==
    IF ~IsSet(env.STRIPE_SECRET_KEY) THEN 503
    ELSE IF ~event.signed THEN 400
    ELSE IF ~event.metadata THEN 400
    ELSE IF ~IsSet(event.customerEmail) THEN 400
    ELSE IF ~IsSet(event.subscription) THEN 200
    ELSE 0

\* a checkout.session.completed delivery arrives at handler d
WebhookReceive(d, event) ==
    /\ deliveries[d].pc = "idle"
    /\ Len(subscriptions) < MaxSubscriptions
    /\ deliveries' =
          [deliveries EXCEPT ![d] =
              IF WebhookChecks(event) # 0
              THEN [NoDelivery EXCEPT !.pc = "done", !.status = WebhookChecks(event)]
              ELSE [NoDelivery EXCEPT !.pc = "lookup",
                                      !.subscriptionId = event.subscription[1],
                                      !.customerEmail = event.customerEmail[1]]]
    /\ UNCHANGED <<storeVars, searchVars, matchVars, historyVars, env, sessions,
                   lastChange, reply, partners, checkoutSessions>>

\* await storage.getSubscriptionByStripeId(subscriptionId)
WebhookLookup(d) ==
    /\ deliveries[d].pc = "lookup"
    /\ deliveries' =
          [deliveries EXCEPT
              ![d].pc = "write",
              ![d].existingSubscription =
                  getSubscriptionByStripeId(deliveries[d].subscriptionId)]
    /\ UNCHANGED <<storeVars, searchVars, matchVars, historyVars, env, sessions,
                   lastChange, reply, partners, checkoutSessions>>

\* await storage.updateSubscription(...) or await storage.createSubscription(...)
WebhookWrite(d) ==
    /\ deliveries[d].pc = "write"
    /\ subscriptions' =
          IF deliveries[d].existingSubscription # << >>
          THEN updateSubscription(deliveries[d].existingSubscription[1].id,
                                  deliveries[d].customerEmail)
          ELSE createSubscription(deliveries[d].subscriptionId,
                                  deliveries[d].customerEmail)
    /\ deliveries' = [deliveries EXCEPT ![d].pc = "done", ![d].status = 200]
    /\ UNCHANGED <<companies, disposalSites, stateLandingPages,
                   disposalSiteLandingPages, companyAnalytics, searchVars,
                   matchVars, historyVars, env, sessions, lastChange, reply,
                   partners, checkoutSessions>>

\* the answer has been sent; the handler is free for the next delivery
WebhookEnd(d) ==
    /\ deliveries[d].pc = "done"
    /\ deliveries' = [deliveries EXCEPT ![d] = NoDelivery]
    /\ UNCHANGED <<storeVars, searchVars, matchVars, historyVars, env, sessions,
                   lastChange, reply, partners, checkoutSessions>>

\* the deliveries Stripe may send: signed or not, with or without metadata,
\* customer email and subscription id
WebhookEvents ==
    {[signed |-> sg, metadata |-> md, customerEmail |-> em, subscription |-> sub] :
        sg \in BOOLEAN, md \in BOOLEAN,
        em \in {Undefined, Str("a@example.com"), Str("b@example.com")},
        sub \in {Undefined, Str("sub_1"), Str("sub_2")}}

InitWebhook ==
    /\ EmptyStore
    /\ SearchIdle
    /\ MatchIdle
    /\ NoWrites
    /\ sessions = [s \in 1..MaxSessions |-> FALSE]
    /\ lastChange = [s \in 1..MaxSessions |-> NoChange]
    /\ reply = NoReply
    /\ partners = << >>
    /\ checkoutSessions = {}
    /\ deliveries = [d \in 1..MaxDeliveries |-> NoDelivery]
    /\ \E key \in {Undefined, Str("sk")} :
          env = [ADMIN_API_KEY |-> Str("k"), ADMIN_MIGRATION_KEY |-> Str("m"),
                 STRIPE_SECRET_KEY |-> key,
                 GOOGLE_API_KEY |-> Str("g")]

NextWebhook ==
    \/ \E d \in 1..MaxDeliveries, event \in WebhookEvents : WebhookReceive(d, event)
    \/ \E d \in 1..MaxDeliveries : WebhookLookup(d)
    \/ \E d \in 1..MaxDeliveries : WebhookWrite(d)
    \/ \E d \in 1..MaxDeliveries : WebhookEnd(d)

SpecWebhook == InitWebhook /\ [][NextWebhook]_vars

\* C24: webhook idempotency: after any sequence and any interleaving of
\* checkout.session.completed deliveries that carry the same Stripe
\* subscription id, redeliveries and concurrent deliveries included, the
\* store holds at most one subscription with that stripeSubscriptionId.
C24_WebhookIdempotent ==
    \A i, j \in DOMAIN subscriptions :
        subscriptions[i].stripeSubscriptionId = subscriptions[j].stripeSubscriptionId
            => i = j

(***************************************************************************)
(* POST /api/import/search-google.  Names and addresses are sequences of   *)
(* characters; a field that may be missing is Undefined or Str(text).  The *)
(* answers of the Google APIs are inputs of the request.                   *)
(***************************************************************************)
ImportLimit == 20
MaxPlaces == 2
MaxListings == 2

\* x?.toLowerCase()
OptionalLower(x) == IF x = Undefined THEN Undefined ELSE Str(toLowerCase(x[1]))

\* x || "" for a string that may be missing
OrEmpty(x) == IF x = Undefined THEN << >> ELSE x[1]

\* `${details.name.toLowerCase()}|${details.formatted_address?.toLowerCase() || ''}`
DedupeKey(details) ==
    toLowerCase(details.name[1]) \o <<"|">>
        \o OrEmpty(OptionalLower(details.formatted_address))

\* existing.some(c => c.name.toLowerCase() === details.name.toLowerCase() &&
\*                    c.address?.toLowerCase() === details.formatted_address?.toLowerCase())
IsDuplicateInDb(existing, details) ==
    \E i \in DOMAIN existing :
        /\ toLowerCase(existing[i].name) = toLowerCase(details.name[1])
        /\ OptionalLower(existing[i].address) = OptionalLower(details.formatted_address)

\* the row that storage.createCompany / createDisposalSite inserts
ImportedRow(type, id, details) ==
    IF type = Str("company")
    THEN [id |-> id, name |-> details.name[1],
          address |-> Str(OrEmpty(details.formatted_address)),
          tier |-> "free", lat |-> Empty, lng |-> Empty,
          additionalLocations |-> NoBlob]
    ELSE [id |-> id, name |-> details.name[1],
          address |-> Str(OrEmpty(details.formatted_address)),
          lat |-> Empty, lng |-> Empty, additionalLocations |-> NoBlob]

\* the loop over searchData.results.slice(0, 20): rows is the table, existing
\* the rows read before the loop
RECURSIVE ImportPlaces(_, _, _, _, _, _)
ImportPlaces(type, places, i, existing, rows, tally) ==
    IF i > Len(places) \/ i > ImportLimit THEN [rows |-> rows, tally |-> tally]
    ELSE LET details == places[i]
         IN  IF ~details.ok \/ details.name = Undefined
             THEN ImportPlaces(type, places, i + 1, existing, rows,
                               [tally EXCEPT !.failed = @ + 1])
             ELSE IF IsDuplicateInDb(existing, details)
                     \/ DedupeKey(details) \in tally.batchAdded
             THEN ImportPlaces(type, places, i + 1, existing, rows,
                               [tally EXCEPT !.skipped = @ + 1])
             ELSE ImportPlaces(type, places, i + 1, existing,
                               Append(rows, ImportedRow(type, Len(rows) + 1, details)),
                               [tally EXCEPT
                                   !.imported = @ + 1,
                                   !.batchAdded = @ \cup {DedupeKey(details)}])

ImportSearchGoogle(apiKey, type, searchStatus, results) ==
    LET \* the status answered before the loop, or 0 to go on
        status == IF isAdmin(apiKey) # Next_ THEN isAdmin(apiKey)
                  ELSE IF ~IsSet(type) THEN 400
                  ELSE IF type \notin {Str("company"), Str("disposal")} THEN 400
                  ELSE IF ~IsSet(env.GOOGLE_API_KEY) THEN 503
                  ELSE IF searchStatus # "OK" THEN 400
                  ELSE 0
        table == IF type = Str("company") THEN companies ELSE disposalSites
        done == ImportPlaces(type, results, 1, table, table,
                             [imported |-> 0, skipped |-> 0, failed |-> 0,
                              batchAdded |-> {}])
    IN  /\ Len(companies) < MaxListings
        /\ Len(disposalSites) < MaxListings
        /\ IF status # 0
           THEN /\ reply' = [NoReply EXCEPT !.op = "import", !.apiKey = apiKey,
                                            !.status = status]
                /\ UNCHANGED <<companies, disposalSites>>
           ELSE /\ reply' = [NoReply EXCEPT
                                !.op = "import", !.apiKey = apiKey, !.status = 200,
                                !.next = TRUE,
                                !.body = <<[type |-> type[1],
                                            found |-> Len(results),
                                            imported |-> done.tally.imported,
                                            skipped |-> done.tally.skipped,
                                            failed |-> done.tally.failed]>>]
                /\ companies' = IF type = Str("company") THEN done.rows ELSE companies
                /\ disposalSites' = IF type = Str("disposal") THEN done.rows
                                    ELSE disposalSites
        /\ UNCHANGED <<stateLandingPages, disposalSiteLandingPages, subscriptions,
                       companyAnalytics, searchVars, matchVars, historyVars, env,
                       sessions, lastChange, partners, checkoutSessions, deliveries>>

\* the details Google answers for a place: the request for the details may
\* fail, and the name and the address may be missing
PlaceDetails(ok, name, formatted_address) ==
    [ok |-> ok, name |-> name, formatted_address |-> formatted_address]

Places ==
    {PlaceDetails(TRUE, Str(<<"C", "o">>), Str(<<"O", "n">>)),
     PlaceDetails(TRUE, Str(<<"C", "O">>), Str(<<"o", "n">>)),
     PlaceDetails(TRUE, Str(<<"C", "o">>), Undefined),
     PlaceDetails(TRUE, Str(<<"I", "n">>), Str(<<"O", "n">>)),
     PlaceDetails(TRUE, Undefined, Str(<<"O", "n">>)),
     PlaceDetails(FALSE, Undefined, Undefined)}

\* the search results: up to MaxPlaces places, or one place found
\* ImportLimit times and another place after it
SearchResults ==
    UNION {[1..n -> Places] : n \in 0..MaxPlaces}
    \cup {[i \in 1..(ImportLimit + 1) |-> IF i <= ImportLimit THEN p ELSE q] :
              p \in Places, q \in {PlaceDetails(TRUE, Str(<<"I", "n">>), Str(<<"O", "n">>))}}

InitImport ==
    /\ companies = <<[id |-> 1, name |-> <<"C", "o">>, address |-> Str(<<"O", "n">>),
                      tier |-> "premium", lat |-> Text(Indianapolis.lat),
                      lng |-> Text(Indianapolis.lng),
                      additionalLocations |-> NoBlob]>>
    /\ disposalSites = << >>
    /\ stateLandingPages = << >>
    /\ disposalSiteLandingPages = << >>
    /\ subscriptions = << >>
    /\ companyAnalytics = << >>
    /\ SearchIdle
    /\ MatchIdle
    /\ NoWrites
    /\ ApiIdle
    /\ \E key \in {Undefined, Str("g")} :
          env = [ADMIN_API_KEY |-> Str("k"), ADMIN_MIGRATION_KEY |-> Str("m"),
                 STRIPE_SECRET_KEY |-> Undefined, GOOGLE_API_KEY |-> key]

NextImport ==
    \E apiKey \in {Undefined, Str("k")},
       type \in {Undefined, Str("company"), Str("disposal"), Str("partner")},
       searchStatus \in {"OK", "ZERO_RESULTS"}, results \in SearchResults :
        ImportSearchGoogle(apiKey, type, searchStatus, results)

SpecImport == InitImport /\ [][NextImport]_vars

\* name and address of a listing, lower-cased
ListingKey(row) == <<toLowerCase(row.name), OptionalLower(row.address)>>

\* no row of `rows` after the first `before` rows has the lower-cased name and
\* address of another row
NoDuplicateAdded(rows, before) ==
    \A i, j \in DOMAIN rows :
        (i # j /\ j > before) => ListingKey(rows[i]) # ListingKey(rows[j])

\* C30: Google Places import never creates a duplicate listing: one import
\* request processes at most the first 20 search results, adds no listing
\* whose lower-cased name and address equal those of a record that existed
\* at the start of the import or of a place imported earlier in the batch,
\* and imported + skipped + failed equals the number of processed results.
C30_ImportNeverDuplicates ==
    [][(reply'.op = "import" /\ reply'.status = 200 /\ reply' # reply) =>
          LET body == reply'.body[1]
              processed == IF body.found < ImportLimit THEN body.found
                           ELSE ImportLimit
          IN  /\ body.imported + body.skipped + body.failed = processed
              /\ Len(companies') + Len(disposalSites')
                     = Len(companies) + Len(disposalSites) + body.imported
              /\ NoDuplicateAdded(companies', Len(companies))
              /\ NoDuplicateAdded(disposalSites', Len(disposalSites))]_vars
====
